---- MODULE Spec2Model ----
(***************************************************************************)
(* funding_slackbot: the dedupe store (store/sqlite_store.py) and the      *)
(* posting state machine of FundingOpportunityService.run_once             *)
(* (service.py).                                                           *)
(*                                                                         *)
(* Spec      : sequences of run_once invocations against one store, one    *)
(*             instance at a time, with failing fetches, failing store     *)
(*             reads and writes, a failing notifier and process crashes.   *)
(* SpecStore : arbitrary sequences of mark_seen calls on one store.        *)
(***************************************************************************)
EXTENDS Integers, Sequences, FiniteSets, TLC

VARIABLES
    store,                      \* table opportunities: external_id -> row or NoRecord
    clock,                      \* datetime.now(timezone.utc)
    pc,                         \* position of the running run_once, "idle" when none runs
    dry_run,                    \* self.dry_run
    notifier,                   \* self.notifier: "none" or "slack"
    max_posts_per_run,          \* self.max_posts_per_run
    record_non_matches_as_seen, \* self.record_non_matches_as_seen
    srcIdx,                     \* index in self.sources of the source of the outer loop
    opportunities,              \* the part of source.fetch()'s list the inner loop has not reached
    opportunity,                \* the loop variable of the inner loop
    reason_text,                \* filter_result.reason_text() of the current opportunity
    stats,                      \* the RunStats of the run
    notified,                   \* external_id -> number of notifier.post calls that returned, all runs
    calls,                      \* external ids notifier.post was invoked with, this run
    previews,                   \* external ids preview_callback was invoked with, this run
    counted,                    \* external ids some run has counted in stats.posted
    lastPost,                   \* external_id -> how the latest notifier.post for it ended
    ev,                         \* what the last step did
    lastCall,                   \* arguments and prior row of the last direct mark_seen call
    args,                       \* the arguments of a call of one of the pure functions
    result,                     \* what that call returned
    hist                        \* what a kept history knows of the run and of the last backfill

vars == <<store, clock, pc, dry_run, notifier, max_posts_per_run,
          record_non_matches_as_seen, srcIdx, opportunities, opportunity,
          reason_text, stats, notified, calls, previews, counted,
          lastPost, ev, lastCall, args, result, hist>>

----------------------------------------------------------------------------
(* Bounds *)

MaxClock == 2       \* timestamps are 1..MaxClock
MaxItems == 2       \* most opportunities the fetches of one run return together
MaxCap == 2         \* largest max_posts_per_run
MaxVersion == 2     \* versions of an item's title and url
MaxPathLen == 2     \* characters of a URL's path
MaxPairs == 2       \* name=value fields of a URL's query
MaxNotified == 2    \* successful posts counted per external id
MaxDays == 1        \* largest min_days_until_deadline
MaxKeywords == 2    \* keywords of one _find_hits call
MaxRuns == 1        \* runs of which a history is kept
MaxBackfills == 1   \* backfills of which a history is kept

----------------------------------------------------------------------------
(* Values *)

ExtIds == {"a", "b"}
Sources == <<"s1", "s2">>
SourceIds == {Sources[i] : i \in 1..Len(Sources)}
Versions == 1..MaxVersion
Times == 1..MaxClock

\* None (Python) and NULL (SQL); a str is Str(s), a datetime is Utc(n)
Null == [null |-> TRUE]
Str(s) == [text |-> s]
Utc(n) == [utc |-> n]
NoRecord == [absent |-> TRUE]
NoOpportunity == [absent |-> TRUE]
NoEvent == [kind |-> "none"]
NoCall == [absent |-> TRUE]
NoHistory == [absent |-> TRUE]
NoBackfill == [absent |-> TRUE]

Title(v) == <<"title", v>>
Url(v) == <<"url", v>>

\* service.py:15-16
_PENDING_POST_MARKER == "__pending_post__"
_POST_FAILED_MARKER == "__post_failed__"

\* models.py Opportunity, reduced to the fields run_once and the filter read;
\* kw stands for the content the filter rules look at.
Opportunity(e, s, v, k) ==
    [external_id |-> e, source_id |-> s, title |-> Title(v), url |-> Url(v), kw |-> k]

\* the opportunities the sources return to run_once
Opportunities == {Opportunity(e, s, 1, k) : e \in ExtIds, s \in SourceIds, k \in BOOLEAN}

\* the items each source lists: "a" is listed by both sources
Listed == [s \in SourceIds |-> IF s = "s1" THEN {"a", "b"} ELSE {"a"}]

OpportunitiesOf(s) ==
    {o \in Opportunities : o.source_id = s /\ o.external_id \in Listed[s]}

RECURSIVE SeqsUpTo(_, _)
SeqsUpTo(S, n) ==
    IF n = 0 THEN {<<>>}
    ELSE LET shorter == SeqsUpTo(S, n - 1)
         IN shorter \cup {Append(q, x) : q \in {r \in shorter : Len(r) = n - 1}, x \in S}

\* what a source's fetch can return when the run has room for n more opportunities
FetchResults(s, n) == SeqsUpTo(OpportunitiesOf(s), n)

----------------------------------------------------------------------------
(* The dedupe store: store/sqlite_store.py *)

\* sqlite_store.py:75, posted_at.astimezone(timezone.utc).isoformat()
IsoFormat(d) == IF d = Null THEN Null ELSE [iso |-> d.utc]

\* a parse that gives up on the stored text: every timestamp reads as None
parse_datetime_utc_unparsed(v) == Null

\* utils/datetime_utils.py:17-36 on what the store holds: NULL or an ISO text
parse_datetime_utc(v) == IF v = Null THEN Null ELSE Utc(v.iso)

\* SQL COALESCE(x, y)
Coalesce(x, y) == IF x # Null THEN x ELSE y

\* has_seen: None when there is no row, else the row as a SeenRecord
has_seen(st, external_id) ==
    IF st[external_id] = NoRecord THEN NoRecord
    ELSE [external_id |-> external_id,
          source_id |-> st[external_id].source_id,
          first_seen_at |-> parse_datetime_utc(st[external_id].first_seen_at),
          posted_at |-> parse_datetime_utc(st[external_id].posted_at),
          title |-> st[external_id].title,
          url |-> st[external_id].url,
          match_reason |-> st[external_id].match_reason]

\* a conflict clause that keeps the stored posted_at and never takes the new one
MergedPostedAt_keeps_stored(stored, excluded) == stored

\* a conflict clause with the arguments of COALESCE swapped
MergedPostedAt_prefers_new(stored, excluded) == Coalesce(excluded, stored)

\* sqlite_store.py:95, posted_at = COALESCE(opportunities.posted_at, excluded.posted_at)
MergedPostedAt(stored, excluded) == Coalesce(stored, excluded)

\* a conflict clause that assigns excluded.match_reason as it is
MergedMatchReason_overwrites(stored, excluded) == excluded

\* sqlite_store.py:94, match_reason = COALESCE(excluded.match_reason, opportunities.match_reason)
MergedMatchReason(stored, excluded) == Coalesce(excluded, stored)

\* an upsert that replaces the whole row (INSERT OR REPLACE), first_seen_at included
mark_seen_replaces_row(st, external_id, source_id, title, url, match_reason, posted_at, now) ==
    [st EXCEPT ![external_id] =
        [source_id |-> source_id,
         first_seen_at |-> IsoFormat(Utc(now)),
         posted_at |-> IF st[external_id] = NoRecord THEN IsoFormat(posted_at)
                       ELSE MergedPostedAt(st[external_id].posted_at, IsoFormat(posted_at)),
         title |-> title,
         url |-> url,
         match_reason |-> IF st[external_id] = NoRecord THEN match_reason
                          ELSE MergedMatchReason(st[external_id].match_reason, match_reason)]]

\* mark_seen: INSERT ... ON CONFLICT(external_id) DO UPDATE SET ...
mark_seen(st, external_id, source_id, title, url, match_reason, posted_at, now) ==
    LET old == st[external_id]
        posted_value == IsoFormat(posted_at)
        row == IF old = NoRecord
               THEN [source_id |-> source_id,
                     first_seen_at |-> IsoFormat(Utc(now)),
                     posted_at |-> posted_value,
                     title |-> title,
                     url |-> url,
                     match_reason |-> match_reason]
               ELSE [source_id |-> source_id,
                     first_seen_at |-> old.first_seen_at,
                     posted_at |-> MergedPostedAt(old.posted_at, posted_value),
                     title |-> title,
                     url |-> url,
                     match_reason |-> MergedMatchReason(old.match_reason, match_reason)]
    IN [st EXCEPT ![external_id] = row]

----------------------------------------------------------------------------
(* The filter: filters/base.py *)

\* Filter.evaluate, a function of the opportunity's content
evaluate(o) ==
    IF o.kw THEN [matched |-> TRUE, reasons |-> <<"keywords: ai">>]
    ELSE [matched |-> FALSE, reasons |-> <<"no include keywords matched">>]

\* "; ".join(reasons)
RECURSIVE Join(_)
Join(reasons) ==
    IF Len(reasons) = 1 THEN reasons[1]
    ELSE reasons[1] \o "; " \o Join(Tail(reasons))

\* FilterResult.reason_text
ReasonText(fr) ==
    IF Len(fr.reasons) = 0 THEN Str("no specific reason") ELSE Str(Join(fr.reasons))

----------------------------------------------------------------------------
(* The service: service.py *)

\* RunStats()
RunStats == [processed |-> 0, matched |-> 0, filtered_out |-> 0, posted |-> 0,
             skipped_already_posted |-> 0, skipped_pending_confirmation |-> 0,
             errors |-> <<>>]

\* RunStats.ok
ok(s) == s.errors = <<>>

\* a sentinel test that looks for the wrong marker
_is_pending_post_reason_wrong_marker(reason) == reason = Str(_POST_FAILED_MARKER)

\* _is_pending_post_reason
_is_pending_post_reason(reason) == reason = Str(_PENDING_POST_MARKER)

\* the failure branch writes the reason without the marker
PostFailedReason_unmarked(r) == r

\* f"{_POST_FAILED_MARKER}: {reason_text}"
PostFailedReason(r) == Str(_POST_FAILED_MARKER \o ": " \o r.text)

\* a limit test that is off by one
LimitReached_off_by_one(s) == s.posted > max_posts_per_run

\* service.py:71, stats.posted >= self.max_posts_per_run
LimitReached(s) == s.posted >= max_posts_per_run

\* a dedupe test that treats every seen record as posted
AlreadyPosted_any_record(seen) == seen # NoRecord

\* service.py:87, seen and seen.posted_at
AlreadyPosted(seen) == seen # NoRecord /\ seen.posted_at # Null

\* service.py:90, seen and _is_pending_post_reason(seen.match_reason)
PendingConfirmation(seen) == seen # NoRecord /\ _is_pending_post_reason(seen.match_reason)

\* a non-match is recorded whatever the configuration says
ShouldRecordNonMatch_always == ~dry_run

\* a non-match is recorded without looking at dry_run
ShouldRecordNonMatch_in_dry_run == record_non_matches_as_seen

\* service.py:97, self.record_non_matches_as_seen and not self.dry_run
ShouldRecordNonMatch == record_non_matches_as_seen /\ ~dry_run

\* a run that does not test for the notifier
NotifierMissing_unchecked == FALSE

\* service.py:123, self.notifier is None
NotifierMissing == notifier = "none"

Running == pc \notin {"idle", "done"}

\* the service's state before the first run: an empty table, the defaults of __init__
InitService ==
    /\ store = [e \in ExtIds |-> NoRecord]
    /\ clock = 1
    /\ dry_run = FALSE
    /\ notifier = "slack"
    /\ max_posts_per_run = 1
    /\ record_non_matches_as_seen = TRUE
    /\ srcIdx = 1
    /\ opportunities = <<>>
    /\ opportunity = NoOpportunity
    /\ reason_text = Null
    /\ stats = RunStats
    /\ notified = [e \in ExtIds |-> 0]
    /\ calls = <<>>
    /\ previews = <<>>
    /\ counted = {}
    /\ lastPost = [e \in ExtIds |-> "none"]
    /\ ev = NoEvent
    /\ lastCall = NoCall
    /\ hist = NoHistory

NoArgs == [absent |-> TRUE]
NoResult == [absent |-> TRUE]

Init ==
    /\ InitService
    /\ pc = "idle"
    /\ args = NoArgs
    /\ result = NoResult

\* the history after a step of run_once or init_db that did ev'
Recorded ==
    IF ev'.kind = "start"
    THEN [hist EXCEPT !.runs = @ + 1, !.store0 = store, !.sources = <<>>,
                      !.fetched = <<>>, !.backfill = NoBackfill]
    ELSE IF ev'.kind = "fetch_failed"
    THEN [hist EXCEPT !.sources = Append(@, ev'.source)]
    ELSE IF ev'.kind = "fetched"
    THEN [hist EXCEPT !.sources = Append(@, ev'.source), !.fetched = @ \o opportunities']
    ELSE IF ev'.kind = "init_db"
    THEN [hist EXCEPT !.backfill = NoBackfill]
    ELSE hist

\* a kept history follows the step; it is kept of MaxRuns runs
Track ==
    IF hist = NoHistory THEN hist' = hist
    ELSE /\ ev'.kind = "start" => hist.runs < MaxRuns
         /\ hist' = Recorded

\* time passes between invocations
Tick ==
    /\ ~Running
    /\ clock < MaxClock
    /\ clock' = clock + 1
    /\ UNCHANGED <<args, result, store, pc, dry_run, notifier, max_posts_per_run,
                   record_non_matches_as_seen, srcIdx, opportunities, opportunity,
                   reason_text, stats, notified, calls, previews, counted,
                   lastPost, ev, lastCall, hist>>

\* FundingOpportunityService(...) and the entry of run_once (service.py:35-57)
StartRun ==
    /\ ~Running
    /\ \E d \in BOOLEAN, n \in {"none", "slack"}, m \in 1..MaxCap, r \in BOOLEAN :
        /\ d => n = "none"
        /\ dry_run' = d
        /\ notifier' = n
        /\ max_posts_per_run' = m
        /\ record_non_matches_as_seen' = r
    /\ stats' = RunStats
    /\ srcIdx' = 1
    /\ opportunities' = <<>>
    /\ opportunity' = NoOpportunity
    /\ reason_text' = Null
    /\ calls' = <<>>
    /\ previews' = <<>>
    /\ pc' = "fetch"
    /\ ev' = [kind |-> "start"]
    /\ UNCHANGED <<args, result, store, clock, notified, counted, lastPost, lastCall>>
    /\ Track

\* the run returns stats
Return(s) ==
    /\ stats' = s
    /\ pc' = "done"
    /\ opportunities' = <<>>
    /\ opportunity' = NoOpportunity
    /\ reason_text' = Null

\* an outer loop in which a failing fetch ends the run instead of the source
Fetch_aborts_run ==
    /\ pc = "fetch"
    /\ IF srcIdx > Len(Sources)
       THEN /\ Return(stats)
            /\ ev' = [kind |-> "return"]
            /\ UNCHANGED srcIdx
       ELSE \/ /\ Return([stats EXCEPT !.errors =
                                Append(@, <<"fetch failed", Sources[srcIdx]>>)])
               /\ ev' = [kind |-> "fetch_failed", source |-> Sources[srcIdx]]
               /\ UNCHANGED srcIdx
            \/ /\ \E fetched \in FetchResults(Sources[srcIdx], MaxItems - stats.processed) :
                    opportunities' = fetched
               /\ pc' = "next"
               /\ ev' = [kind |-> "fetched", source |-> Sources[srcIdx]]
               /\ UNCHANGED <<srcIdx, stats, opportunity, reason_text>>
    /\ UNCHANGED <<args, result, store, clock, dry_run, notifier, max_posts_per_run,
                   record_non_matches_as_seen, notified, calls, previews,
                   counted, lastPost, lastCall>>
    /\ Track

\* the outer loop, service.py:59-68: fetch the next source or leave the loop
Fetch ==
    /\ pc = "fetch"
    /\ IF srcIdx > Len(Sources)
       THEN /\ Return(stats)
            /\ ev' = [kind |-> "return"]
            /\ UNCHANGED srcIdx
       ELSE \/ /\ stats' = [stats EXCEPT !.errors =
                                Append(@, <<"fetch failed", Sources[srcIdx]>>)]
               /\ srcIdx' = srcIdx + 1
               /\ ev' = [kind |-> "fetch_failed", source |-> Sources[srcIdx]]
               /\ UNCHANGED <<pc, opportunities, opportunity, reason_text>>
            \/ /\ \E fetched \in FetchResults(Sources[srcIdx], MaxItems - stats.processed) :
                    opportunities' = fetched
               /\ pc' = "next"
               /\ ev' = [kind |-> "fetched", source |-> Sources[srcIdx]]
               /\ UNCHANGED <<srcIdx, stats, opportunity, reason_text>>
    /\ UNCHANGED <<args, result, store, clock, dry_run, notifier, max_posts_per_run,
                   record_non_matches_as_seen, notified, calls, previews,
                   counted, lastPost, lastCall>>
    /\ Track

\* an inner loop that takes the fetched list from its end
NextOpportunity_from_the_end ==
    /\ pc = "next"
    /\ IF opportunities = <<>>
       THEN /\ pc' = "fetch"
            /\ srcIdx' = srcIdx + 1
            /\ opportunity' = NoOpportunity
            /\ reason_text' = Null
            /\ ev' = [kind |-> "source_done"]
            /\ UNCHANGED <<stats, opportunities>>
       ELSE IF LimitReached(stats)
       THEN /\ Return(stats)
            /\ ev' = [kind |-> "limit", id |-> Head(opportunities).external_id]
            /\ UNCHANGED srcIdx
       ELSE /\ opportunity' = opportunities[Len(opportunities)]
            /\ opportunities' = SubSeq(opportunities, 1, Len(opportunities) - 1)
            /\ stats' = [stats EXCEPT !.processed = @ + 1]
            /\ reason_text' = Null
            /\ pc' = "has_seen"
            /\ ev' = [kind |-> "processing",
                      id |-> opportunities[Len(opportunities)].external_id]
            /\ UNCHANGED srcIdx
    /\ UNCHANGED <<args, result, store, clock, dry_run, notifier, max_posts_per_run,
                   record_non_matches_as_seen, notified, calls, previews,
                   counted, lastPost, lastCall>>
    /\ Track

\* the head of the inner loop, service.py:70-78
NextOpportunity ==
    /\ pc = "next"
    /\ IF opportunities = <<>>
       THEN /\ pc' = "fetch"
            /\ srcIdx' = srcIdx + 1
            /\ opportunity' = NoOpportunity
            /\ reason_text' = Null
            /\ ev' = [kind |-> "source_done"]
            /\ UNCHANGED <<stats, opportunities>>
       ELSE IF LimitReached(stats)
       THEN /\ Return(stats)
            /\ ev' = [kind |-> "limit", id |-> Head(opportunities).external_id]
            /\ UNCHANGED srcIdx
       ELSE /\ opportunity' = Head(opportunities)
            /\ opportunities' = Tail(opportunities)
            /\ stats' = [stats EXCEPT !.processed = @ + 1]
            /\ reason_text' = Null
            /\ pc' = "has_seen"
            /\ ev' = [kind |-> "processing", id |-> Head(opportunities).external_id]
            /\ UNCHANGED srcIdx
    /\ UNCHANGED <<args, result, store, clock, dry_run, notifier, max_posts_per_run,
                   record_non_matches_as_seen, notified, calls, previews,
                   counted, lastPost, lastCall>>
    /\ Track

\* the configuration of the service does not change during a run
UnchangedConfig ==
    UNCHANGED <<args, result, dry_run, notifier, max_posts_per_run, record_non_matches_as_seen, srcIdx,
                clock, lastCall>>

\* `continue`: the iteration for the current opportunity ends with outcome o
Continue(o) ==
    /\ pc' = "next"
    /\ ev' = [kind |-> o, id |-> opportunity.external_id]

AddError(s, kind) == [s EXCEPT !.errors = Append(@, <<kind, opportunity.external_id>>)]

\* self.store.mark_seen(external_id=opportunity.external_id, ..., match_reason, posted_at)
MarkOpportunity(match_reason, posted_at) ==
    mark_seen(store, opportunity.external_id, opportunity.source_id, opportunity.title,
              opportunity.url, match_reason, posted_at, clock)

\* a lookup whose except branch takes the opportunity for unseen
HasSeen_read_error_as_unseen ==
    /\ pc = "has_seen"
    /\ \/ /\ stats' = AddError(stats, "failed to read dedupe state")
          /\ pc' = "filter"
          /\ ev' = [kind |-> "read_failed", id |-> opportunity.external_id]
       \/ LET seen == has_seen(store, opportunity.external_id) IN
          IF AlreadyPosted(seen)
          THEN /\ stats' = [stats EXCEPT !.skipped_already_posted = @ + 1]
               /\ Continue("already_posted")
          ELSE IF PendingConfirmation(seen)
          THEN /\ stats' = [stats EXCEPT !.skipped_pending_confirmation = @ + 1]
               /\ Continue("pending_confirmation")
          ELSE /\ pc' = "filter"
               /\ ev' = [kind |-> "unposted", id |-> opportunity.external_id]
               /\ UNCHANGED stats
    /\ UNCHANGED <<store, opportunities, opportunity, reason_text, notified, calls,
                   previews, counted, lastPost>>
    /\ UnchangedConfig
    /\ Track

\* the dedupe lookup, service.py:80-92
HasSeen ==
    /\ pc = "has_seen"
    /\ \/ /\ stats' = AddError(stats, "failed to read dedupe state")
          /\ Continue("read_failed")
       \/ LET seen == has_seen(store, opportunity.external_id) IN
          IF AlreadyPosted(seen)
          THEN /\ stats' = [stats EXCEPT !.skipped_already_posted = @ + 1]
               /\ Continue("already_posted")
          ELSE IF PendingConfirmation(seen)
          THEN /\ stats' = [stats EXCEPT !.skipped_pending_confirmation = @ + 1]
               /\ Continue("pending_confirmation")
          ELSE /\ pc' = "filter"
               /\ ev' = [kind |-> "unposted", id |-> opportunity.external_id]
               /\ UNCHANGED stats
    /\ UNCHANGED <<store, opportunities, opportunity, reason_text, notified, calls,
                   previews, counted, lastPost>>
    /\ UnchangedConfig
    /\ Track

\* the filter and what follows it up to the first store write of a match,
\* service.py:94-127
Evaluate ==
    /\ pc = "filter"
    /\ LET filter_result == evaluate(opportunity) IN
       IF ~filter_result.matched
       THEN /\ IF ShouldRecordNonMatch
               THEN \/ /\ store' = MarkOpportunity(ReasonText(filter_result), Null)
                       /\ stats' = [stats EXCEPT !.filtered_out = @ + 1]
                    \/ /\ stats' = AddError([stats EXCEPT !.filtered_out = @ + 1],
                                            "failed to mark non-match as seen")
                       /\ UNCHANGED store
               ELSE /\ stats' = [stats EXCEPT !.filtered_out = @ + 1]
                    /\ UNCHANGED store
            /\ Continue("filtered_out")
            /\ UNCHANGED <<opportunities, opportunity, reason_text, previews>>
       ELSE IF dry_run
       THEN /\ stats' = [stats EXCEPT !.matched = @ + 1]
            /\ reason_text' = ReasonText(filter_result)
            /\ previews' = Append(previews, opportunity.external_id)
            /\ Continue("previewed")
            /\ UNCHANGED <<store, opportunities, opportunity>>
       ELSE IF NotifierMissing
       THEN /\ Return(AddError([stats EXCEPT !.matched = @ + 1],
                               "notifier is required when dry_run is false"))
            /\ ev' = [kind |-> "no_notifier", id |-> opportunity.external_id]
            /\ UNCHANGED <<store, previews>>
       ELSE /\ stats' = [stats EXCEPT !.matched = @ + 1]
            /\ reason_text' = ReasonText(filter_result)
            /\ pc' = "pending"
            /\ ev' = [kind |-> "matched", id |-> opportunity.external_id]
            /\ UNCHANGED <<store, opportunities, opportunity, previews>>
    /\ UNCHANGED <<notified, calls, counted, lastPost>>
    /\ UnchangedConfig
    /\ Track

\* a pending-post write whose except branch lacks the `continue`
WritePending_falls_through ==
    /\ pc = "pending"
    /\ \/ /\ store' = MarkOpportunity(Str(_PENDING_POST_MARKER), Null)
          /\ pc' = "post"
          /\ ev' = [kind |-> "pending_recorded", id |-> opportunity.external_id]
          /\ UNCHANGED stats
       \/ /\ stats' = AddError(stats, "failed to record pending post")
          /\ pc' = "post"
          /\ ev' = [kind |-> "pending_write_failed", id |-> opportunity.external_id]
          /\ UNCHANGED store
    /\ UNCHANGED <<opportunities, opportunity, reason_text, notified, calls, previews,
                   counted, lastPost>>
    /\ UnchangedConfig
    /\ Track

\* the write of the pending-post sentinel, service.py:129-142
WritePending ==
    /\ pc = "pending"
    /\ \/ /\ store' = MarkOpportunity(Str(_PENDING_POST_MARKER), Null)
          /\ pc' = "post"
          /\ ev' = [kind |-> "pending_recorded", id |-> opportunity.external_id]
          /\ UNCHANGED stats
       \/ /\ stats' = AddError(stats, "failed to record pending post")
          /\ Continue("pending_write_failed")
          /\ UNCHANGED store
    /\ UNCHANGED <<opportunities, opportunity, reason_text, notified, calls, previews,
                   counted, lastPost>>
    /\ UnchangedConfig
    /\ Track

\* self.notifier.post(opportunity, reason_text), service.py:144-149
Post ==
    /\ pc = "post"
    /\ calls' = Append(calls, opportunity.external_id)
    /\ \/ /\ notified[opportunity.external_id] < MaxNotified
          /\ notified' = [notified EXCEPT ![opportunity.external_id] = @ + 1]
          /\ lastPost' = [lastPost EXCEPT ![opportunity.external_id] = "returned"]
          /\ pc' = "mark_posted"
          /\ ev' = [kind |-> "post_returned", id |-> opportunity.external_id]
          /\ UNCHANGED stats
       \/ /\ stats' = AddError(stats, "failed to post")
          /\ lastPost' = [lastPost EXCEPT ![opportunity.external_id] = "raised"]
          /\ pc' = "mark_failed"
          /\ ev' = [kind |-> "post_raised", id |-> opportunity.external_id]
          /\ UNCHANGED notified
    /\ UNCHANGED <<store, opportunities, opportunity, reason_text, previews, counted>>
    /\ UnchangedConfig
    /\ Track

\* the write of the post-failed marker, service.py:150-166
MarkFailed ==
    /\ pc = "mark_failed"
    /\ \/ /\ store' = MarkOpportunity(PostFailedReason(reason_text), Null)
          /\ Continue("post_failed")
          /\ UNCHANGED stats
       \/ /\ stats' = AddError(stats, "failed to clear pending post state")
          /\ Continue("post_failed_unrecorded")
          /\ UNCHANGED store
    /\ UNCHANGED <<opportunities, opportunity, reason_text, notified, calls, previews,
                   counted, lastPost>>
    /\ UnchangedConfig
    /\ Track

\* the write that records the post, service.py:168-183
MarkPosted ==
    /\ pc = "mark_posted"
    /\ \/ /\ store' = MarkOpportunity(reason_text, Utc(clock))
          /\ stats' = [stats EXCEPT !.posted = @ + 1]
          /\ counted' = counted \cup {opportunity.external_id}
          /\ Continue("posted")
       \/ /\ stats' = AddError(stats, "failed to mark posted")
          /\ Continue("posted_unrecorded")
          /\ UNCHANGED <<store, counted>>
    /\ UNCHANGED <<opportunities, opportunity, reason_text, notified, calls, previews,
                   lastPost>>
    /\ UnchangedConfig
    /\ Track

\* the process dies during a run: the RunStats is lost, the store stays
Crash ==
    /\ Running
    /\ pc' = "idle"
    /\ stats' = RunStats
    /\ srcIdx' = 1
    /\ opportunities' = <<>>
    /\ opportunity' = NoOpportunity
    /\ reason_text' = Null
    /\ calls' = <<>>
    /\ previews' = <<>>
    /\ ev' = [kind |-> "crash"]
    /\ UNCHANGED <<args, result, store, clock, dry_run, notifier, max_posts_per_run,
                   record_non_matches_as_seen, notified, counted, lastPost, lastCall>>
    /\ Track

Next ==
    \/ StartRun
    \/ Fetch
    \/ NextOpportunity
    \/ HasSeen
    \/ Evaluate
    \/ WritePending
    \/ Post
    \/ MarkFailed
    \/ MarkPosted
    \/ Crash

Spec == Init /\ [][Next]_vars

TypeOK == pc \in {"idle", "done", "fetch", "next", "has_seen", "filter", "pending", "post",
                  "mark_failed", "mark_posted", "call", "returned"}

----------------------------------------------------------------------------
(* Direct use of the store: any sequence of mark_seen calls *)

\* the key the direct calls are made on
StoreKeys == {"a"}
MatchReasons == {Null, Str("keywords: ai"), Str(_PENDING_POST_MARKER)}
PostedAts == {Null} \cup {Utc(t) : t \in Times}

\* store.mark_seen(external_id=..., source_id=..., title=..., url=..., match_reason=...,
\* posted_at=...) with any arguments
MarkSeenCall ==
    /\ pc = "idle"
    /\ \E e \in StoreKeys, s \in SourceIds, v \in Versions, w \in Versions,
          r \in MatchReasons, p \in PostedAts :
        /\ store' = mark_seen(store, e, s, Title(v), Url(w), r, p, clock)
        /\ lastCall' = [external_id |-> e, source_id |-> s, title |-> Title(v),
                        url |-> Url(w), match_reason |-> r, posted_at |-> p]
    /\ UNCHANGED <<args, result, clock, pc, dry_run, notifier, max_posts_per_run,
                   record_non_matches_as_seen, srcIdx, opportunities, opportunity,
                   reason_text, stats, notified, calls, previews, counted, lastPost, ev,
                   hist>>

\* an init_db that creates the table anew
InitDb_recreates ==
    /\ pc = "idle"
    /\ store' = [e \in ExtIds |-> NoRecord]
    /\ lastCall' = NoCall
    /\ ev' = [kind |-> "init_db"]
    /\ UNCHANGED <<args, result, clock, pc, dry_run, notifier, max_posts_per_run,
                   record_non_matches_as_seen, srcIdx, opportunities, opportunity,
                   reason_text, stats, notified, calls, previews, counted, lastPost>>
    /\ Track

\* SQLiteStore.init_db on an existing database: CREATE TABLE IF NOT EXISTS and
\* CREATE INDEX IF NOT EXISTS leave the rows alone
InitDb ==
    /\ pc = "idle"
    /\ store' = store
    /\ lastCall' = NoCall
    /\ ev' = [kind |-> "init_db"]
    /\ UNCHANGED <<args, result, clock, pc, dry_run, notifier, max_posts_per_run,
                   record_non_matches_as_seen, srcIdx, opportunities, opportunity,
                   reason_text, stats, notified, calls, previews, counted, lastPost>>
    /\ Track

\* the fields of an opportunity that _run_backfill reads
BackfillFields(o) ==
    [external_id |-> o.external_id, source_id |-> o.source_id, title |-> o.title,
     url |-> o.url]

\* what a source's fetch can return to _run_backfill when there is room for n more
BackfillFetch(s, n) == SeqsUpTo({BackfillFields(o) : o \in OpportunitiesOf(s)}, n)

\* an inner loop that marks every fetched opportunity, seen before or not
RECURSIVE BackfillItems_marks_all(_, _, _, _)
BackfillItems_marks_all(st, opps, i, written) ==
    IF opps = <<>> THEN st
    ELSE BackfillItems_marks_all(
            IF i \notin written THEN st
            ELSE mark_seen(st, Head(opps).external_id, Head(opps).source_id,
                           Head(opps).title, Head(opps).url,
                           Str("backfill mark_seen"), Null, clock),
            Tail(opps), i + 1, written)

\* the inner loop of _run_backfill, cli.py:145-166: opps are the opportunities left,
\* the i-th of the backfill being the first of them; written are the positions whose
\* mark_seen call, when made, returns
RECURSIVE BackfillItems(_, _, _, _)
BackfillItems(st, opps, i, written) ==
    IF opps = <<>> THEN st
    ELSE LET o == Head(opps)
             seen == has_seen(st, o.external_id)
             marked == IF seen # NoRecord \/ i \notin written
                       THEN st
                       ELSE mark_seen(st, o.external_id, o.source_id, o.title, o.url,
                                      Str("backfill mark_seen"), Null, clock)
         IN BackfillItems(marked, Tail(opps), i + 1, written)

\* the history after a backfill that fetched opps from the sources not in failed and
\* left st: the details of this backfill, and the ids whose record it created
BackfillRecorded(opps, failed, written, st) ==
    [hist EXCEPT !.backfills = @ + 1,
                 !.backfill = [fetched |-> opps, failed |-> failed, written |-> written],
                 !.backfilled = @ \cup {e \in ExtIds : store[e] = NoRecord /\ st[e] # NoRecord}]

\* _run_backfill, cli.py:135-171. A source in failed raises in fetch and contributes no
\* opportunity; a mark_seen that raises leaves its opportunity unwritten, and a
\* has_seen that raises ends the backfill, leaving the later ones unwritten.
Backfill ==
    /\ pc = "idle"
    /\ hist # NoHistory => hist.backfills < MaxBackfills
    /\ \E failed \in SUBSET SourceIds :
       \E r1 \in IF Sources[1] \in failed THEN {<<>>}
                 ELSE BackfillFetch(Sources[1], MaxItems) :
       \E r2 \in IF Sources[2] \in failed THEN {<<>>}
                 ELSE BackfillFetch(Sources[2], MaxItems - Len(r1)) :
       \E written \in SUBSET (1..(Len(r1) + Len(r2))) :
            /\ store' = BackfillItems(store, r1 \o r2, 1, written)
            /\ hist' = IF hist = NoHistory THEN hist
                       ELSE BackfillRecorded(r1 \o r2, failed, written, store')
    /\ lastCall' = NoCall
    /\ ev' = [kind |-> "backfill"]
    /\ UNCHANGED <<args, result, clock, pc, dry_run, notifier, max_posts_per_run,
                   record_non_matches_as_seen, srcIdx, opportunities, opportunity,
                   reason_text, stats, notified, calls, previews, counted, lastPost>>

NextStore ==
    \/ MarkSeenCall
    \/ Tick

SpecStore == Init /\ [][NextStore]_vars

\* runs interleaved with init_db and backfill
NextOps ==
    \/ Next
    \/ InitDb
    \/ Backfill

SpecOps == Init /\ [][NextOps]_vars

\* a run that was started goes on until it returns or the process dies, and the
\* command is invoked again and again
SpecLive == Spec /\ WF_vars(Next)

\* records a store can hold from invocations made when the feed carried another
\* version of the item: one posted, one left with the pending-post sentinel
StoredPosted ==
    [source_id |-> "s1", first_seen_at |-> [iso |-> 1], posted_at |-> [iso |-> 1],
     title |-> Title(2), url |-> Url(2), match_reason |-> Str("keywords: ai")]
StoredPending ==
    [source_id |-> "s1", first_seen_at |-> [iso |-> 1], posted_at |-> Null,
     title |-> Title(2), url |-> Url(2), match_reason |-> Str(_PENDING_POST_MARKER)]

\* the history at the start
History ==
    [runs |-> 0, backfills |-> 0, store0 |-> store, sources |-> <<>>, fetched |-> <<>>,
     backfill |-> NoBackfill, backfilled |-> {}]

\* a store that is empty or holds a record of "a" from earlier invocations, and a
\* history that is kept
InitHist ==
    /\ store \in {[e \in ExtIds |-> IF e = "a" THEN r ELSE NoRecord] :
                    r \in {NoRecord, StoredPosted, StoredPending}}
    /\ clock = 1
    /\ pc = "idle"
    /\ dry_run = FALSE
    /\ notifier = "slack"
    /\ max_posts_per_run = 1
    /\ record_non_matches_as_seen = TRUE
    /\ srcIdx = 1
    /\ opportunities = <<>>
    /\ opportunity = NoOpportunity
    /\ reason_text = Null
    /\ stats = RunStats
    /\ notified = [e \in ExtIds |-> IF store[e] = StoredPosted THEN 1 ELSE 0]
    /\ calls = <<>>
    /\ previews = <<>>
    /\ counted = {e \in ExtIds : store[e] = StoredPosted}
    /\ lastPost = [e \in ExtIds |-> IF store[e] = StoredPosted THEN "returned" ELSE "none"]
    /\ ev = NoEvent
    /\ lastCall = NoCall
    /\ args = NoArgs
    /\ result = NoResult
    /\ hist = History

\* runs on a store that may hold earlier records, with a history kept
SpecHist == InitHist /\ [][Next]_vars

\* the state before the first run, with a history kept
InitKept ==
    /\ InitHist
    /\ store = [e \in ExtIds |-> NoRecord]

\* runs, init_db and backfill on a new store, with a history kept
SpecBackfill == InitKept /\ [][NextOps]_vars


----------------------------------------------------------------------------
(* Strings: the str methods the URL and keyword code uses, character by character *)

\* the characters of the modelled strings, in code point order
Ascii == " #%&+-./0123456789:=?ABCDEFGHIJKLMNOPQRSTUVWXYZ_abcdefghijklmnopqrstuvwxyz"
UpperCase == "ABCDEFGHIJKLMNOPQRSTUVWXYZ"
LowerCase == "abcdefghijklmnopqrstuvwxyz"
Digits == "0123456789"

At(s, i) == SubSeq(s, i, i)
CharsOf(s) == {At(s, i) : i \in 1..Len(s)}

\* position of character c in s, 0 when it is not there: s.find(c) + 1
Find(s, c) ==
    IF \E i \in 1..Len(s) : At(s, i) = c
    THEN CHOOSE i \in 1..Len(s) : At(s, i) = c /\ \A j \in 1..(i - 1) : At(s, j) # c
    ELSE 0

\* ord(c), up to an order-preserving renumbering
CodePoint(c) == Find(Ascii, c)

\* a < b for two str
RECURSIVE StrLess(_, _)
StrLess(a, b) ==
    IF b = "" THEN FALSE
    ELSE IF a = "" THEN TRUE
    ELSE IF At(a, 1) = At(b, 1) THEN StrLess(Tail(a), Tail(b))
    ELSE CodePoint(At(a, 1)) < CodePoint(At(b, 1))

LowerOf == [c \in CharsOf(UpperCase) |-> At(LowerCase, Find(UpperCase, c))]
LowerChar(c) == IF c \in DOMAIN LowerOf THEN LowerOf[c] ELSE c

\* str.lower
RECURSIVE Lower(_)
Lower(s) == IF s = "" THEN "" ELSE LowerChar(At(s, 1)) \o Lower(Tail(s))

\* str.startswith
StartsWith(s, prefix) == Len(s) >= Len(prefix) /\ SubSeq(s, 1, Len(prefix)) = prefix

\* str.lstrip, str.rstrip with the characters of chars; str.strip() takes off blanks
RECURSIVE LStrip(_, _)
LStrip(s, chars) ==
    IF s # "" /\ At(s, 1) \in chars THEN LStrip(Tail(s), chars) ELSE s

RECURSIVE RStrip(_, _)
RStrip(s, chars) ==
    IF s # "" /\ At(s, Len(s)) \in chars THEN RStrip(SubSeq(s, 1, Len(s) - 1), chars) ELSE s

Strip(s) == RStrip(LStrip(s, {" "}), {" "})

\* s.split(sep), sep one character
RECURSIVE Split(_, _)
Split(s, sep) ==
    LET i == Find(s, sep) IN
    IF i = 0 THEN <<s>>
    ELSE <<SubSeq(s, 1, i - 1)>> \o Split(SubSeq(s, i + 1, Len(s)), sep)

\* sep.join(parts)
RECURSIVE JoinWith(_, _)
JoinWith(parts, sep) ==
    IF parts = <<>> THEN ""
    ELSE IF Len(parts) = 1 THEN parts[1]
    ELSE parts[1] \o sep \o JoinWith(Tail(parts), sep)

----------------------------------------------------------------------------
(* URL identity: utils/url_utils.py, with urllib.parse as it is called there *)

\* url_utils.py:6-15
_TRACKING_QUERY_PARAMS ==
    {"fbclid", "gclid", "igshid", "mc_cid", "mc_eid", "mkt_tok", "ref", "source"}

\* urllib.parse.scheme_chars
SchemeChars == CharsOf(UpperCase) \cup CharsOf(LowerCase) \cup CharsOf(Digits) \cup {"+", "-", "."}
Letters == CharsOf(UpperCase) \cup CharsOf(LowerCase)

\* the first position from `from` on of one of the characters "/", "?", "#", or
\* Len(s) + 1: urllib.parse._splitnetloc
NetlocEnd(s, from) ==
    IF \E i \in from..Len(s) : At(s, i) \in {"/", "?", "#"}
    THEN CHOOSE i \in from..Len(s) :
            /\ At(s, i) \in {"/", "?", "#"}
            /\ \A j \in from..(i - 1) : At(s, j) \notin {"/", "?", "#"}
    ELSE Len(s) + 1

\* urllib.parse.urlsplit, last step: the query is what follows the first "?"
SplitQuery(scheme, netloc, rest, fragment) ==
    LET q == Find(rest, "?") IN
    [scheme |-> scheme, netloc |-> netloc,
     path |-> IF q > 0 THEN SubSeq(rest, 1, q - 1) ELSE rest,
     query |-> IF q > 0 THEN SubSeq(rest, q + 1, Len(rest)) ELSE "",
     fragment |-> fragment]

\* urllib.parse.urlsplit, third step: the fragment is what follows the first "#"
SplitFragment(scheme, netloc, rest) ==
    LET h == Find(rest, "#") IN
    IF h > 0
    THEN SplitQuery(scheme, netloc, SubSeq(rest, 1, h - 1), SubSeq(rest, h + 1, Len(rest)))
    ELSE SplitQuery(scheme, netloc, rest, "")

\* urllib.parse.urlsplit, second step: after "//" the netloc runs to the first of
\* "/", "?", "#"
SplitNetloc(scheme, rest) ==
    LET delim == NetlocEnd(rest, 3) IN
    IF StartsWith(rest, "//")
    THEN SplitFragment(scheme, SubSeq(rest, 3, delim - 1), SubSeq(rest, delim, Len(rest)))
    ELSE SplitFragment(scheme, "", rest)

\* urllib.parse.urlsplit: the scheme is what precedes the first ":" when it is a letter
\* followed by scheme characters, and is lowercased
urlsplit(url) ==
    LET i == Find(url, ":") IN
    IF /\ i > 1
       /\ At(url, 1) \in Letters
       /\ \A j \in 1..(i - 1) : At(url, j) \in SchemeChars
    THEN SplitNetloc(Lower(SubSeq(url, 1, i - 1)), SubSeq(url, i + 1, Len(url)))
    ELSE SplitNetloc("", url)

\* the escapes quote_plus writes for the characters of Ascii that are not safe
Escapes ==
    << <<"#", "%23">>, <<"%", "%25">>, <<"&", "%26">>, <<"+", "%2B">>, <<"/", "%2F">>,
       <<":", "%3A">>, <<"=", "%3D">>, <<"?", "%3F">> >>

\* urllib.parse.quote_plus of one character
QuoteChar(c) ==
    IF c = " " THEN "+"
    ELSE IF \E i \in 1..Len(Escapes) : Escapes[i][1] = c
    THEN Escapes[CHOOSE i \in 1..Len(Escapes) : Escapes[i][1] = c][2]
    ELSE c

RECURSIVE quote_plus(_)
quote_plus(s) == IF s = "" THEN "" ELSE QuoteChar(At(s, 1)) \o quote_plus(Tail(s))

\* urllib.parse.unquote: %XX becomes the character, any other text stays
RECURSIVE unquote(_)
unquote(s) ==
    IF s = "" THEN ""
    ELSE IF At(s, 1) = "%" /\ \E i \in 1..Len(Escapes) : Escapes[i][2] = SubSeq(s, 1, 3)
    THEN Escapes[CHOOSE i \in 1..Len(Escapes) : Escapes[i][2] = SubSeq(s, 1, 3)][1]
            \o unquote(SubSeq(s, 4, Len(s)))
    ELSE At(s, 1) \o unquote(Tail(s))

\* name.replace("+", " ")
RECURSIVE PlusToSpace(_)
PlusToSpace(s) ==
    IF s = "" THEN ""
    ELSE (IF At(s, 1) = "+" THEN " " ELSE At(s, 1)) \o PlusToSpace(Tail(s))

\* one name=value field of parse_qsl, keep_blank_values=True
QueryField(name_value) ==
    LET i == Find(name_value, "=")
        name == IF i > 0 THEN SubSeq(name_value, 1, i - 1) ELSE name_value
        value == IF i > 0 THEN SubSeq(name_value, i + 1, Len(name_value)) ELSE ""
    IN <<unquote(PlusToSpace(name)), unquote(PlusToSpace(value))>>

RECURSIVE QueryFields(_)
QueryFields(fields) ==
    IF fields = <<>> THEN <<>>
    ELSE IF fields[1] = "" THEN QueryFields(Tail(fields))
    ELSE <<QueryField(fields[1])>> \o QueryFields(Tail(fields))

\* urllib.parse.parse_qsl(query, keep_blank_values=True)
parse_qsl(query) == IF query = "" THEN <<>> ELSE QueryFields(Split(query, "&"))

\* a test that compares the key as it is written
IsTracking_case_sensitive(key) ==
    StartsWith(key, "utm_") \/ key \in _TRACKING_QUERY_PARAMS

\* url_utils.py:36-40
IsTracking(key) ==
    LET lowered == Lower(key) IN
    StartsWith(lowered, "utm_") \/ lowered \in _TRACKING_QUERY_PARAMS

RECURSIVE FilterQuery(_)
FilterQuery(pairs) ==
    IF pairs = <<>> THEN <<>>
    ELSE IF IsTracking(pairs[1][1]) THEN FilterQuery(Tail(pairs))
    ELSE <<pairs[1]>> \o FilterQuery(Tail(pairs))

\* (key, value) < (key, value) as tuples of str
PairLess(a, b) == StrLess(a[1], b[1]) \/ (a[1] = b[1] /\ StrLess(a[2], b[2]))

\* list.sort(key=lambda item: (item[0], item[1])), which is stable
RECURSIVE Insert(_, _)
Insert(sorted, x) ==
    IF sorted = <<>> THEN <<x>>
    ELSE IF PairLess(x, sorted[1]) THEN <<x>> \o sorted
    ELSE <<sorted[1]>> \o Insert(Tail(sorted), x)

\* a query that is left in the order it was written in
SortQuery_unsorted(pairs) == pairs

RECURSIVE SortQuery(_)
SortQuery(pairs) ==
    IF pairs = <<>> THEN <<>>
    ELSE Insert(SortQuery(SubSeq(pairs, 1, Len(pairs) - 1)), pairs[Len(pairs)])

RECURSIVE EncodedFields(_)
EncodedFields(pairs) ==
    IF pairs = <<>> THEN <<>>
    ELSE <<quote_plus(pairs[1][1]) \o "=" \o quote_plus(pairs[1][2])>>
            \o EncodedFields(Tail(pairs))

\* urllib.parse.urlencode(pairs, doseq=True) for str values
urlencode(pairs) == JoinWith(EncodedFields(pairs), "&")

\* urllib.parse.urlunsplit((scheme, netloc, path, query, "")) with a netloc
urlunsplit(scheme, netloc, path, query) ==
    LET rooted == IF path # "" /\ At(path, 1) # "/" THEN "/" \o path ELSE path
        url1 == IF netloc # "" THEN "//" \o netloc \o rooted ELSE path
        url2 == IF scheme # "" THEN scheme \o ":" \o url1 ELSE url1
    IN IF query # "" THEN url2 \o "?" \o query ELSE url2

\* url_utils.py:27-46: the canonical form from the parts of an absolute URL
Canonical(parsed) ==
    LET path == IF parsed.path = "" THEN "/" ELSE parsed.path IN
    urlunsplit(Lower(parsed.scheme), Lower(parsed.netloc),
               IF path # "/" THEN RStrip(path, {"/"}) ELSE path,
               urlencode(SortQuery(FilterQuery(parse_qsl(parsed.query)))))

\* url_utils.py:20-25: what is empty or has no scheme or no netloc is returned as it is
CanonicalOrValue(value, parsed) ==
    IF value = "" THEN value
    ELSE IF parsed.scheme = "" \/ parsed.netloc = "" THEN value
    ELSE Canonical(parsed)

\* url_utils.py:18-46
canonicalize_url(url) == CanonicalOrValue(Strip(url), urlsplit(Strip(url)))

\* url_utils.py:49-50: SHA-256 as a one-to-one naming of its argument
stable_hash(value) == "sha256(" \o value \o ")"

\* url_utils.py:53-60; raw_id is Null for None
derive_external_id(raw_id, canonical_url) ==
    IF raw_id # Null /\ raw_id.text # ""
    THEN LET normalized_raw == Strip(raw_id.text) IN
         IF StartsWith(normalized_raw, "http://") \/ StartsWith(normalized_raw, "https://")
         THEN canonicalize_url(normalized_raw)
         ELSE normalized_raw
    ELSE "urlhash:" \o stable_hash(canonical_url)

\* rss_source.py:102-112: the link is canonicalized and, when that leaves nothing,
\* source id and title take its place as the seed of the hash
FallbackSeed(raw_link) ==
    LET url == canonicalize_url(Strip(raw_link)) IN
    IF url # "" THEN url ELSE "s1:title"

----------------------------------------------------------------------------
(* Calls of the URL functions on URLs written in every way the bounds allow *)

\* a URL as the text of its parts
RECURSIVE WordsUpTo(_, _)
WordsUpTo(chars, n) ==
    IF n = 0 THEN {""}
    ELSE LET shorter == WordsUpTo(chars, n - 1)
         IN shorter \cup {w \o c : w \in {v \in shorter : Len(v) = n - 1}, c \in chars}

Leads == {"", " "}
Prefixes == {"http://h", "HTTP://H", "h", "//h"}
AbsolutePrefixes == {"http://h", "HTTP://H"}
Paths == {""} \cup {"/" \o w : w \in WordsUpTo({"/", "a"}, MaxPathLen - 1)}
QueryPairs == { <<"k", "1">>, <<"j", "a+b">>, <<"utm_x", "1">>, <<"REF", "3">> }
Queries == SeqsUpTo(QueryPairs, MaxPairs)
Fragments == {"", "#f"}

RECURSIVE RawFields(_)
RawFields(pairs) ==
    IF pairs = <<>> THEN <<>>
    ELSE <<pairs[1][1] \o "=" \o pairs[1][2]>> \o RawFields(Tail(pairs))

UrlParts ==
    [lead : Leads, prefix : Prefixes, path : Paths, pairs : Queries, fragment : Fragments]

UrlText(u) ==
    u.lead \o u.prefix \o u.path
        \o (IF u.pairs = <<>> THEN "" ELSE "?" \o JoinWith(RawFields(u.pairs), "&"))
        \o u.fragment \o u.lead

\* the links of feed entries
Links == {u \in UrlParts : u.lead = "" /\ u.fragment = ""}

RawIds ==
    {Null, Str(""), Str(" "), Str("g1"), Str(" g1 "), Str("http://h/a/?utm_x=1"),
     Str("HTTP://h/a/?utm_x=1"), Str(" https://H/a#f"), Str("http://")}

InitUrl ==
    /\ InitService
    /\ pc = "call"
    /\ result = NoResult
    /\ \/ \E u \in UrlParts :
            args = [fn |-> "canonicalize_url", parts |-> u, url |-> UrlText(u),
                    again |-> FALSE]
       \/ \E u \in Links, r \in RawIds :
            args = [fn |-> "derive_external_id", parts |-> u, raw_link |-> UrlText(u),
                    raw_id |-> r]

UnchangedService ==
    UNCHANGED <<store, clock, dry_run, notifier, max_posts_per_run,
                record_non_matches_as_seen, srcIdx, opportunities, opportunity,
                reason_text, stats, notified, calls, previews, counted, lastPost, ev,
                lastCall, hist>>

\* canonicalize_url(url)
CallCanonicalizeUrl ==
    /\ pc = "call"
    /\ args.fn = "canonicalize_url"
    /\ result' = canonicalize_url(args.url)
    /\ pc' = "returned"
    /\ UNCHANGED args
    /\ UnchangedService

\* the value canonicalize_url returned is canonicalized once more
CallCanonicalizeUrlAgain ==
    /\ pc = "returned"
    /\ args.fn = "canonicalize_url"
    /\ ~args.again
    /\ args' = [args EXCEPT !.url = result, !.again = TRUE]
    /\ result' = NoResult
    /\ pc' = "call"
    /\ UnchangedService

\* derive_external_id(raw_identifier, fallback_seed) as the RSS adapter calls it
CallDeriveExternalId ==
    /\ pc = "call"
    /\ args.fn = "derive_external_id"
    /\ result' = derive_external_id(args.raw_id, FallbackSeed(args.raw_link))
    /\ pc' = "returned"
    /\ UNCHANGED args
    /\ UnchangedService

NextUrl ==
    \/ CallCanonicalizeUrl
    \/ CallCanonicalizeUrlAgain
    \/ CallDeriveExternalId

SpecUrl == InitUrl /\ [][NextUrl]_vars

----------------------------------------------------------------------------
(* The rule-based filter: filters/keyword_filter.py *)

\* what \s of a regular expression matches, in the modelled strings
Whitespace == {" ", "\n"}
\* [A-Za-z0-9]
Alnum == Letters \cup CharsOf(Digits)

\* str.split(): the words between runs of whitespace
RECURSIVE SplitWords(_)
SplitWords(s) ==
    LET t == LStrip(s, Whitespace) IN
    IF t = "" THEN <<>>
    ELSE LET n == IF \E i \in 1..Len(t) : At(t, i) \in Whitespace
                  THEN (CHOOSE i \in 1..Len(t) :
                          /\ At(t, i) \in Whitespace
                          /\ \A j \in 1..(i - 1) : At(t, j) \notin Whitespace) - 1
                  ELSE Len(t)
         IN <<SubSeq(t, 1, n)>> \o SplitWords(SubSeq(t, n + 1, Len(t)))

\* keyword_filter.py:91-98: the words of the pattern, <<>> for no pattern
_build_keyword_pattern(keyword) == SplitWords(keyword)

\* the position after a match of word, \s+, word, ... that starts at i, 0 for no match;
\* re.IGNORECASE
RECURSIVE MatchEnd(_, _, _)
MatchEnd(text, i, words) ==
    LET word == words[1]
        j == i + Len(word)
    IN IF j - 1 > Len(text) \/ Lower(SubSeq(text, i, j - 1)) # Lower(word) THEN 0
       ELSE IF Len(words) = 1 THEN j
       ELSE IF j > Len(text) \/ At(text, j) \notin Whitespace THEN 0
       ELSE LET k == IF \E m \in j..Len(text) : At(text, m) \notin Whitespace
                     THEN CHOOSE m \in j..Len(text) :
                            /\ At(text, m) \notin Whitespace
                            /\ \A l \in j..(m - 1) : At(text, l) \in Whitespace
                     ELSE Len(text) + 1
            IN MatchEnd(text, k, Tail(words))

\* a search that takes the keyword wherever its characters occur
Search_substring(words, text) ==
    \E i \in 1..Len(text) : MatchEnd(text, i, words) > 0

\* pattern.search(searchable) for (?<![A-Za-z0-9])phrase(?![A-Za-z0-9])
Search(words, text) ==
    \E i \in 1..Len(text) :
        LET e == MatchEnd(text, i, words) IN
        /\ e > 0
        /\ i = 1 \/ At(text, i - 1) \notin Alnum
        /\ e > Len(text) \/ At(text, e) \notin Alnum

\* keyword_filter.py:82-88
IsHit(keyword, searchable) ==
    /\ _build_keyword_pattern(keyword) # <<>>
    /\ Search(_build_keyword_pattern(keyword), searchable)

RECURSIVE _find_hits(_, _)
_find_hits(keywords, searchable) ==
    IF keywords = <<>> THEN <<>>
    ELSE (IF IsHit(keywords[1], searchable) THEN <<keywords[1]>> ELSE <<>>)
            \o _find_hits(Tail(keywords), searchable)

\* sub in s
Contains(s, sub) == \E i \in 0..(Len(s) - Len(sub)) : SubSeq(s, i + 1, i + Len(sub)) = sub

\* any(value.lower() in field for value in values), field None read as ""
AnyIn(values, field) ==
    LET lowered == IF field = Null THEN "" ELSE Lower(field.text) IN
    \E i \in 1..Len(values) : Contains(lowered, Lower(values[i]))

\* keyword_filter.py:65: the seconds of a day
SecondsPerDay == 86400

\* int(delta.total_seconds() // 86400), a division that rounds towards zero
DaysUntil_truncated(closing_date, now) ==
    IF closing_date.utc >= now.utc
    THEN (closing_date.utc - now.utc) \div SecondsPerDay
    ELSE -((now.utc - closing_date.utc) \div SecondsPerDay)

\* keyword_filter.py:63-65: int(delta.total_seconds() // 86400), // rounds down
DaysUntil(closing_date, now) == (closing_date.utc - now.utc) \div SecondsPerDay

FilterResult(matched, reasons) == [matched |-> matched, reasons |-> reasons]

\* an exclude rule that gives way to a matching include keyword
Excluded_unless_included(include_hits, exclude_hits) ==
    include_hits = <<>> /\ exclude_hits # <<>>

\* keyword_filter.py:28: if exclude_hits
Excluded(include_hits, exclude_hits) == exclude_hits # <<>>

\* RuleBasedFilter.evaluate, keyword_filter.py:16-79; now is datetime.now(timezone.utc)
RuleBasedFilter_evaluate(settings, opp, now) ==
    LET searchable == opp.title \o "\n" \o opp.summary
        include_hits == _find_hits(settings.include_keywords, searchable)
        reasons1 == IF include_hits # <<>>
                    THEN <<"keywords: " \o JoinWith(include_hits, ", ")>>
                    ELSE <<>>
        exclude_hits == _find_hits(settings.exclude_keywords, searchable)
        reasons2 == IF settings.include_councils # <<>>
                    THEN Append(reasons1,
                                "council/funder: " \o (IF opp.funder = Null THEN "None"
                                                       ELSE opp.funder.text))
                    ELSE reasons1
        reasons3 == IF settings.include_funding_types # <<>>
                    THEN Append(reasons2,
                                "funding type: " \o (IF opp.funding_type = Null
                                                     THEN "None"
                                                     ELSE opp.funding_type.text))
                    ELSE reasons2
        days_until_deadline == DaysUntil(opp.closing_date, now)
        reasons4 == IF settings.min_days_until_deadline # Null
                    THEN Append(reasons3,
                                "deadline in " \o ToString(days_until_deadline) \o " days")
                    ELSE reasons3
    IN IF settings.include_keywords # <<>> /\ include_hits = <<>>
       THEN FilterResult(FALSE, <<"no include keywords matched">>)
       ELSE IF Excluded(include_hits, exclude_hits)
       THEN FilterResult(FALSE, <<"excluded by keyword: " \o JoinWith(exclude_hits, ", ")>>)
       ELSE IF settings.include_councils # <<>>
               /\ ~AnyIn(settings.include_councils, opp.funder)
       THEN FilterResult(FALSE, <<"funder/council filter not matched">>)
       ELSE IF settings.include_funding_types # <<>>
               /\ ~AnyIn(settings.include_funding_types, opp.funding_type)
       THEN FilterResult(FALSE, <<"funding_type filter not matched">>)
       ELSE IF settings.min_days_until_deadline # Null /\ opp.closing_date = Null
       THEN FilterResult(FALSE, <<"missing closing date required by deadline filter">>)
       ELSE IF settings.min_days_until_deadline # Null
               /\ days_until_deadline < settings.min_days_until_deadline.days
       THEN FilterResult(FALSE,
                <<"deadline too soon (" \o ToString(days_until_deadline) \o "d < "
                    \o ToString(settings.min_days_until_deadline.days) \o "d)">>)
       ELSE IF reasons4 = <<>>
       THEN FilterResult(TRUE, <<"matched default pass-through rules">>)
       ELSE FilterResult(TRUE, reasons4)

----------------------------------------------------------------------------
(* Calls of the filter: SpecFilter *)

\* config.py:23-28, FilterSettings
IncludeKeywords == {<<>>, <<"AI">>, <<"AI", "digital twin">>}
ExcludeKeywords == {<<>>, <<"PhD">>}
IncludeCouncils == {<<>>, <<"MRC">>}
IncludeFundingTypes == {<<>>, <<"grant">>}
MinDays == {Null} \cup {[days |-> n] : n \in 0..MaxDays}

FilterSettings ==
    [include_keywords : IncludeKeywords, exclude_keywords : ExcludeKeywords,
     include_councils : IncludeCouncils, include_funding_types : IncludeFundingTypes,
     min_days_until_deadline : MinDays]

\* title and summary
Texts ==
    {<<"AI PhD studentship", "">>,
     <<"Research software maintenance fund", "Supports maintenance and sustainability work">>,
     <<"AI for health systems", "">>,
     <<"Building a Digital", "twin of the grid">>}

\* datetime.now(timezone.utc) of the call
FilterNow == Utc(2 * SecondsPerDay)

\* closing dates around each whole number of days from now, the past included
ClosingDates ==
    {Null} \cup {Utc(FilterNow.utc + d * SecondsPerDay + r) :
                    d \in (-1)..MaxDays, r \in {0, SecondsPerDay - 1}}

\* the fields of an Opportunity the filter reads, models.py
FilterOpportunities ==
    {[title |-> t[1], summary |-> t[2], funder |-> f, funding_type |-> ft,
      closing_date |-> c] :
        t \in Texts, f \in {Null, Str("MRC"), Str("EPSRC")},
        ft \in {Null, Str("Research Grant")}, c \in ClosingDates}

Keywords == {"AI", "digital twin", " Digital  Twin", " "}
KeywordLists == SeqsUpTo(Keywords, MaxKeywords)
Searchables ==
    {"AI for health systems\n", "Research software maintenance fund\nsustainability",
     "xAI\nAI1", "An (ai) call\n_AI_", "digital \n twin", "digitaltwin\ndigital twins", ""}

InitFilter ==
    /\ InitService
    /\ pc = "call"
    /\ result = NoResult
    /\ \/ \E st \in FilterSettings, o \in FilterOpportunities :
            args = [fn |-> "evaluate", settings |-> st, opp |-> o, now |-> FilterNow]
       \/ \E k \in KeywordLists, t \in Searchables :
            args = [fn |-> "_find_hits", keywords |-> k, searchable |-> t]

\* RuleBasedFilter(settings).evaluate(opportunity)
CallEvaluate ==
    /\ pc = "call"
    /\ args.fn = "evaluate"
    /\ result' = RuleBasedFilter_evaluate(args.settings, args.opp, args.now)
    /\ pc' = "returned"
    /\ UNCHANGED args
    /\ UnchangedService

\* _find_hits(keywords, searchable)
CallFindHits ==
    /\ pc = "call"
    /\ args.fn = "_find_hits"
    /\ result' = _find_hits(args.keywords, args.searchable)
    /\ pc' = "returned"
    /\ UNCHANGED args
    /\ UnchangedService

NextFilter ==
    \/ CallEvaluate
    \/ CallFindHits

SpecFilter == InitFilter /\ [][NextFilter]_vars

----------------------------------------------------------------------------
(* Properties *)

Row(e) == store[e]
Posted(e) == store[e] # NoRecord /\ store[e].posted_at # Null
Pending(e) ==
    /\ store[e] # NoRecord
    /\ store[e].posted_at = Null
    /\ store[e].match_reason = Str(_PENDING_POST_MARKER)
FailedMarked(e) ==
    /\ store[e] # NoRecord
    /\ store[e].posted_at = Null
    /\ store[e].match_reason = PostFailedReason(Str("keywords: ai"))

\* the step ends the lookup of the current opportunity with an answer from the store
LookedUp == pc = "has_seen" /\ ev'.kind \notin {"read_failed", "crash"}

NumErrors(kind) == Cardinality({i \in 1..Len(stats.errors) : stats.errors[i][1] = kind})

\* C1: over any sequence of runs on one store, with the notifier raising, store reads and
\* writes failing and the process crashing anywhere in the loop, notifier.post returns
\* normally at most once for each external_id.
C1_PostedAtMostOnce == \A e \in ExtIds : notified[e] <= 1

\* a later encounter of an opportunity the notifier has delivered is skipped
C1_Witness ==
    /\ ev.kind \in {"already_posted", "pending_confirmation"}
    /\ notified[ev.id] = 1

\* C2: an opportunity some run has posted (counted in stats.posted) keeps a non-null
\* posted_at in its record; when a later non-dry-run run looks it up, it is skipped: the
\* notifier is not invoked, posted is not incremented, skipped_already_posted is
\* incremented by one; a run all of whose opportunities were posted before reports
\* posted = 0 and invokes the notifier for none.
C2_SecondRunSkipsPosted ==
    /\ [](\A e \in counted : Posted(e))
    /\ [](pc \in {"filter", "pending", "post", "mark_failed", "mark_posted"}
            => opportunity.external_id \notin counted)
    /\ [](stats.processed = stats.skipped_already_posted
            => stats.posted = 0 /\ calls = <<>>)
    /\ [][(LookedUp /\ opportunity.external_id \in counted)
            => /\ ev' = [kind |-> "already_posted", id |-> opportunity.external_id]
               /\ pc' = "next"
               /\ calls' = calls
               /\ notified' = notified
               /\ store' = store
               /\ stats' = [stats EXCEPT !.skipped_already_posted = @ + 1]]_vars

\* a non-dry-run run ended having met only an opportunity posted before
C2_Witness ==
    /\ pc = "done"
    /\ ~dry_run
    /\ stats.processed = 1
    /\ stats.skipped_already_posted = 1
    /\ stats.posted = 0
    /\ counted # {}

\* C3: when the lookup of an opportunity returns a record whose match_reason is the
\* pending-post sentinel and whose posted_at is unset, the opportunity is skipped: the
\* filter is not evaluated, the notifier is not invoked, the store is not written and
\* skipped_pending_confirmation is incremented by one.
C3_PendingIsSkipped ==
    [][(LookedUp /\ Pending(opportunity.external_id))
        => /\ ev' = [kind |-> "pending_confirmation", id |-> opportunity.external_id]
           /\ pc' = "next"
           /\ store' = store
           /\ calls' = calls
           /\ previews' = previews
           /\ notified' = notified
           /\ stats' = [stats EXCEPT !.skipped_pending_confirmation = @ + 1]]_vars

\* an opportunity left pending by an earlier run has just been skipped
C3_Witness ==
    /\ ev.kind = "pending_confirmation"
    /\ Pending(ev.id)
    /\ stats.skipped_pending_confirmation = 1
    /\ calls = <<>>

\* C4: in a non-dry-run run the notifier is invoked for an opportunity only right after
\* the write of the pending-post sentinel for its external_id has succeeded in the same
\* iteration; when that write fails the iteration ends without a notifier call.
C4_PendingBeforePost ==
    /\ [](pc = "post"
            => /\ ~dry_run
               /\ ev = [kind |-> "pending_recorded", id |-> opportunity.external_id]
               /\ Pending(opportunity.external_id))
    /\ [][(calls' # calls /\ calls' # <<>>)
            => pc = "post" /\ calls' = Append(calls, opportunity.external_id)]_vars
    /\ [][(pc = "pending" /\ ev'.kind = "pending_write_failed")
            => pc' = "next" /\ calls' = calls /\ store' = store]_vars

\* in one run the sentinel write failed for one opportunity and the notifier has been
\* invoked for another
C4_Witness ==
    /\ ev.kind \in {"post_returned", "post_raised"}
    /\ Len(calls) = 1
    /\ NumErrors("failed to record pending post") = 1


\* the step is a mark_seen call made directly on the store
IsMarkSeenCall == pc = "idle" /\ clock' = clock /\ lastCall' # NoCall

\* C5: once a record's posted_at is non-null no mark_seen call changes it, whatever
\* posted_at the call passes (null or another timestamp); a call sets posted_at only on
\* a record that has none, and then to the value passed.
C5_PostedAtIsPermanent ==
    [][IsMarkSeenCall
        => \A e \in ExtIds :
            /\ Posted(e) => store'[e] # NoRecord /\ store'[e].posted_at = store[e].posted_at
            /\ (~Posted(e) /\ store'[e] # NoRecord /\ store'[e].posted_at # Null)
                => /\ e = lastCall'.external_id
                   /\ store'[e].posted_at = IsoFormat(lastCall'.posted_at)]_vars

\* the last call passed a posted_at (null or a timestamp) other than the one the record holds
C5_Witness ==
    /\ lastCall # NoCall
    /\ Posted(lastCall.external_id)
    /\ IsoFormat(lastCall.posted_at) # store[lastCall.external_id].posted_at

\* C6: mark_seen on an existing external_id overwrites source_id, title and url with the
\* new values, replaces match_reason when the new value is non-null and keeps the stored
\* one when it is null; on a new external_id it creates the record with exactly the
\* values given, which has_seen then returns.
C6_UpsertMerge ==
    [][IsMarkSeenCall
        => LET c == lastCall'
               old == store[c.external_id]
               seen == has_seen(store', c.external_id)
           IN /\ seen # NoRecord
              /\ seen.external_id = c.external_id
              /\ seen.source_id = c.source_id
              /\ seen.title = c.title
              /\ seen.url = c.url
              /\ old # NoRecord
                   => seen.match_reason =
                        IF c.match_reason # Null THEN c.match_reason ELSE old.match_reason
              /\ old = NoRecord
                   => /\ seen.match_reason = c.match_reason
                      /\ seen.posted_at = c.posted_at
                      /\ seen.first_seen_at = Utc(clock)
              /\ \A e \in ExtIds \ {c.external_id} : store'[e] = store[e]]_vars

\* a call with a null match_reason and new title, url and source_id left the stored
\* match_reason in a record that took the new title
C6_Witness ==
    /\ lastCall # NoCall
    /\ lastCall.match_reason = Null
    /\ lastCall.title = Title(2)
    /\ store[lastCall.external_id].title = Title(2)
    /\ store[lastCall.external_id].match_reason = Str("keywords: ai")


C8_PostingLimit ==
    /\ [](stats.posted <= max_posts_per_run)
    /\ [][(Running /\ stats.posted >= max_posts_per_run /\ ev'.kind # "crash")
            => /\ pc' \in {"next", "fetch", "done"}
               /\ store' = store
               /\ calls' = calls
               /\ previews' = previews
               /\ notified' = notified
               /\ stats'.processed = stats.processed
               /\ stats'.matched = stats.matched
               /\ stats'.filtered_out = stats.filtered_out
               /\ stats'.posted = stats.posted]_vars

\* a run stopped at the limit with an opportunity of its second source left
C8_Witness ==
    /\ pc = "done"
    /\ ev.kind = "limit"
    /\ srcIdx = 2
    /\ stats.posted = max_posts_per_run
    /\ stats.processed = stats.posted

\* C9 as stated: when the notifier has raised for an opportunity and run_once has left
\* the iteration, the record's match_reason is the post-failed marker and posted_at is
\* null.
C9_Original ==
    ev.kind \in {"post_failed", "post_failed_unrecorded"}
        => FailedMarked(ev.id)

\* C9: when the notifier raises for an opportunity, run_once appends an error, does not
\* increment stats.posted and goes on to the next opportunity with the limit not
\* reached; it rewrites match_reason from the pending-post sentinel to the post-failed
\* marker, posted_at still null, unless that store write fails: then it appends a
\* second error and the record keeps the pending-post sentinel.
C9_NotifierFailure ==
    /\ [][(pc = "post" /\ ev'.kind = "post_raised")
            => /\ pc' = "mark_failed"
               /\ stats' = [stats EXCEPT !.errors =
                                Append(@, <<"failed to post", opportunity.external_id>>)]
               /\ store' = store
               /\ Pending(opportunity.external_id)]_vars
    /\ [][(pc = "mark_failed" /\ ev'.kind # "crash")
            => /\ pc' = "next"
               /\ stats'.posted = stats.posted
               /\ ~LimitReached(stats')
               /\ notified' = notified
               /\ \/ /\ ev'.kind = "post_failed"
                     /\ stats' = stats
                     /\ store' = [store EXCEPT ![opportunity.external_id].match_reason =
                                      PostFailedReason(reason_text)]
                     /\ store'[opportunity.external_id].posted_at = Null
                     /\ store'[opportunity.external_id].match_reason =
                            Str("__post_failed__: " \o reason_text.text)
                     /\ ~PendingConfirmation(has_seen(store', opportunity.external_id))
                     /\ ~AlreadyPosted(has_seen(store', opportunity.external_id))
                  \/ /\ ev'.kind = "post_failed_unrecorded"
                     /\ Len(stats'.errors) = Len(stats.errors) + 1
                     /\ store' = store
                     /\ Pending(opportunity.external_id)]_vars

\* the notifier raised and the record now carries the post-failed marker
C9_Witness ==
    /\ ev.kind = "post_failed"
    /\ FailedMarked(ev.id)
    /\ store[ev.id].match_reason = Str("__post_failed__: keywords: ai")
    /\ NumErrors("failed to post") = 1
    /\ stats.posted = 0

\* C10 as stated, for a later run in which the store and the notifier are there: an
\* opportunity whose latest post attempt raised in an earlier run, when the lookup
\* returns and the filter matches, is not skipped.
C10_Original ==
    [][(/\ LookedUp
        /\ ~dry_run
        /\ notifier = "slack"
        /\ calls = <<>>
        /\ lastPost[opportunity.external_id] = "raised"
        /\ evaluate(opportunity).matched)
        => pc' = "filter"]_vars

\* C10: an opportunity whose post attempt failed and whose record was rewritten to the
\* post-failed marker is retried: when a later non-dry-run run with a notifier reaches
\* it, the lookup returns and the filter still matches, the run goes on to write the
\* pending-post sentinel; when that write succeeds the notifier is invoked for it again
\* and, when the notifier returns and the last write succeeds, the record has posted_at
\* set.
C10_RetryAfterFailure ==
    /\ [][(LookedUp /\ FailedMarked(opportunity.external_id)) => pc' = "filter"]_vars
    /\ [][(/\ pc = "filter"
           /\ ev'.kind # "crash"
           /\ FailedMarked(opportunity.external_id)
           /\ ~dry_run
           /\ notifier = "slack"
           /\ evaluate(opportunity).matched) => pc' = "pending"]_vars
    /\ [][(pc = "pending" /\ ev'.kind = "pending_recorded") => pc' = "post"]_vars
    /\ [][(pc = "post" /\ ev'.kind # "crash")
            => calls' = Append(calls, opportunity.external_id)]_vars
    /\ [][(pc = "mark_posted" /\ ev'.kind = "posted")
            => Posted(opportunity.external_id)']_vars

\* a run is about to invoke the notifier, for the first time in this run, for an
\* opportunity whose post attempt raised in an earlier run
C10_Witness ==
    /\ pc = "post"
    /\ calls = <<>>
    /\ lastPost[opportunity.external_id] = "raised"


\* C11: when a source's fetch raises, run_once appends one error naming that source,
\* handles none of its opportunities and goes on to fetch the next source in configured
\* order; the step leaves the run in the state that an empty list from that source
\* leaves it in, apart from the error.
C11_FetchFailureSkipsSource ==
    /\ [][(pc = "fetch" /\ ev'.kind = "fetch_failed")
            => /\ stats' = [stats EXCEPT !.errors =
                                Append(@, <<"fetch failed", Sources[srcIdx]>>)]
               /\ pc' = "fetch"
               /\ srcIdx' = srcIdx + 1
               /\ opportunities' = <<>>
               /\ opportunity' = NoOpportunity
               /\ reason_text' = Null
               /\ store' = store
               /\ notified' = notified
               /\ calls' = calls
               /\ previews' = previews]_vars
    /\ [][(pc = "next" /\ ev.kind = "fetched" /\ opportunities = <<>> /\ ev'.kind # "crash")
            => /\ stats' = stats
               /\ pc' = "fetch"
               /\ srcIdx' = srcIdx + 1
               /\ opportunities' = <<>>
               /\ opportunity' = NoOpportunity
               /\ reason_text' = Null
               /\ store' = store
               /\ notified' = notified
               /\ calls' = calls
               /\ previews' = previews]_vars
    /\ [][(pc = "fetch" /\ ev'.kind \in {"fetched", "fetch_failed"})
            => srcIdx \in 1..Len(Sources) /\ ev'.source = Sources[srcIdx]]_vars
    /\ [](NumErrors("fetch failed") <= Len(Sources))

\* the first source's fetch raised and an opportunity of the second source was posted
C11_Witness ==
    /\ pc = "done"
    /\ stats.errors = << <<"fetch failed", "s1">> >>
    /\ stats.processed = 1
    /\ stats.posted = 1
    /\ calls = <<"a">>


\* C12 as stated: every run with dry_run false and no notifier ends with an error in
\* stats.errors.
C12_Original ==
    (pc = "done" /\ ~dry_run /\ notifier = "none") => ~ok(stats)

\* C12: in a run with dry_run false and no notifier, the first opportunity that passes
\* the dedupe checks and matches the filter makes the run record an error in
\* stats.errors (ok is false) and stop at once; a run in which no opportunity gets that
\* far ends without that error. In either case the run invokes no notifier and puts no
\* record into the pending-post or posted state.
C12_MissingNotifier ==
    /\ [][(/\ pc = "filter"
           /\ ~dry_run
           /\ notifier = "none"
           /\ evaluate(opportunity).matched
           /\ ev'.kind # "crash")
            => /\ pc' = "done"
               /\ stats' = [stats EXCEPT
                              !.matched = @ + 1,
                              !.errors = Append(@, <<"notifier is required when dry_run is false",
                                                     opportunity.external_id>>)]
               /\ ~ok(stats')
               /\ store' = store]_vars
    /\ []((pc = "done" /\ ~dry_run /\ notifier = "none")
            => /\ stats.posted = 0
               /\ stats.matched <= 1
               /\ NumErrors("notifier is required when dry_run is false") = stats.matched
               /\ stats.matched = 1 => ev.kind = "no_notifier")
    /\ [][(Running /\ ~dry_run /\ notifier = "none")
            => /\ calls' = calls
               /\ notified' = notified
               /\ \A e \in ExtIds : /\ Pending(e)' => Pending(e)
                                    /\ Posted(e)' => Posted(e)]_vars

\* a run without a notifier stopped at its first match
C12_Witness ==
    /\ pc = "done"
    /\ ~dry_run
    /\ notifier = "none"
    /\ ev.kind = "no_notifier"
    /\ stats.processed = 1
    /\ stats.matched = 1
    /\ ~ok(stats)


\* the step is a store call of run_once that raised
StoreCallFailed ==
    \/ pc = "has_seen" /\ ev'.kind = "read_failed"
    \/ pc = "filter" /\ ev'.kind = "filtered_out" /\ stats'.errors # stats.errors
    \/ pc = "pending" /\ ev'.kind = "pending_write_failed"
    \/ pc = "mark_failed" /\ ev'.kind = "post_failed_unrecorded"
    \/ pc = "mark_posted" /\ ev'.kind = "posted_unrecorded"

\* C13: a has_seen or mark_seen call that raises during run_once does not end the run:
\* one error is appended, the handling of that opportunity ends, and the run goes on
\* with the opportunities and sources that are left; after a failed has_seen the
\* opportunity is neither filtered nor posted.
C13_StoreFailureContinues ==
    /\ [][StoreCallFailed
            => /\ pc' = "next"
               /\ stats'.errors = Append(stats.errors,
                                         <<stats'.errors[Len(stats'.errors)][1],
                                           opportunity.external_id>>)
               /\ store' = store
               /\ stats'.posted = stats.posted
               /\ opportunities' = opportunities
               /\ srcIdx' = srcIdx
               /\ calls' = calls
               /\ notified' = notified]_vars
    /\ [][(pc = "has_seen" /\ ev'.kind = "read_failed")
            => /\ stats' = [stats EXCEPT !.errors =
                                Append(@, <<"failed to read dedupe state",
                                            opportunity.external_id>>)]
               /\ previews' = previews]_vars
    /\ [][(pc = "next" /\ ev'.kind # "crash")
            => IF opportunities = <<>>
               THEN pc' = "fetch" /\ srcIdx' = srcIdx + 1
               ELSE IF stats.posted >= max_posts_per_run
               THEN pc' = "done"
               ELSE /\ pc' = "has_seen"
                    /\ opportunity' = Head(opportunities)
                    /\ stats'.processed = stats.processed + 1]_vars
    /\ [][(pc = "fetch" /\ srcIdx <= Len(Sources) /\ ev'.kind # "crash")
            => ev'.kind \in {"fetched", "fetch_failed"}]_vars

\* the lookup of the first opportunity raised and the run went on to post the second
C13_Witness ==
    /\ pc = "done"
    /\ stats.errors = << <<"failed to read dedupe state", "a">> >>
    /\ stats.processed = 2
    /\ stats.matched = 1
    /\ stats.filtered_out = 0
    /\ stats.posted = 1
    /\ calls = <<"b">>


\* C14: no operation removes a seen record: over any sequence of init_db, mark_seen,
\* backfill and the steps of run_once, an external_id that has a record keeps one.
C14_RecordsAreNeverRemoved ==
    [][\A e \in ExtIds : store[e] # NoRecord => store'[e] # NoRecord]_vars

\* init_db was called on a store that holds a posted record and a record made by
\* backfill
C14_Witness ==
    /\ ev.kind = "init_db"
    /\ Posted("a")
    /\ store["b"] # NoRecord
    /\ store["b"].match_reason = Str("backfill mark_seen")


\* C15: canonicalize_url applied to a value canonicalize_url returned gives that value
\* back, for every input, also one whose path is made of slashes only or ends in
\* several slashes.
C15_Idempotent ==
    (pc = "returned" /\ args.fn = "canonicalize_url" /\ args.again) => result = args.url

\* the tracking parameters as the claim C16 lists them
NamedTracking(key) ==
    \/ StartsWith(Lower(key), "utm_")
    \/ Lower(key) \in {"fbclid", "gclid", "igshid", "mc_cid", "mc_eid", "mkt_tok", "ref",
                       "source"}
NotNamedTracking(pair) == ~NamedTracking(pair[1])
Occurrences(pair, pairs) == Cardinality({i \in 1..Len(pairs) : pairs[i] = pair})

\* the query parameters in an order that is not the sorted one
ListedPairs == << <<"utm_x", "1">>, <<"k", "1">>, <<"REF", "3">>, <<"j", "a+b">> >>

RECURSIVE Repeated(_, _)
Repeated(pair, n) == IF n = 0 THEN <<>> ELSE <<pair>> \o Repeated(pair, n - 1)

\* the parameters of pairs that are not tracking parameters, in the order of listed
RECURSIVE KeptInListedOrder(_, _)
KeptInListedOrder(listed, pairs) ==
    IF listed = <<>> THEN <<>>
    ELSE (IF NotNamedTracking(listed[1])
          THEN Repeated(listed[1], Occurrences(listed[1], pairs))
          ELSE <<>>) \o KeptInListedOrder(Tail(listed), pairs)

\* one URL for all the URLs that differ from u at most in the order of their query
\* parameters, in their tracking parameters and in their fragment: u without tracking
\* parameters and fragment, its other parameters in the order of ListedPairs
Representative(u) ==
    [u EXCEPT !.pairs = KeptInListedOrder(ListedPairs, u.pairs), !.fragment = ""]

\* C16: for an absolute URL canonicalize_url returns what it returns for every URL that
\* differs from it only in the order of the query parameters, in tracking parameters
\* (utm_*, fbclid, gclid, igshid, mc_cid, mc_eid, mkt_tok, ref, source, in any case) or
\* in the fragment, all of them giving the result of their common representative; an
\* input that is not absolute comes back as it is, trimmed.
C16_CanonicalFormIgnores ==
    (pc = "returned" /\ args.fn = "canonicalize_url" /\ ~args.again)
        => IF args.parts.prefix \in AbsolutePrefixes
           THEN /\ {ListedPairs[i] : i \in 1..Len(ListedPairs)} = QueryPairs
                /\ result = canonicalize_url(UrlText(Representative(args.parts)))
           ELSE result = UrlText([args.parts EXCEPT !.lead = ""])

\* an absolute URL with its parameters out of order, a tracking parameter and a
\* fragment came back sorted and without them
C16_Witness ==
    /\ pc = "returned"
    /\ args.fn = "canonicalize_url"
    /\ ~args.again
    /\ args.url = "HTTP://H/a?k=1&j=a+b#f"
    /\ result = "http://h/a?j=a+b&k=1"
    /\ canonicalize_url("http://h/a?j=a+b&REF=3&k=1") = result

\* the raw id, trimmed, is an absolute http or https URL
IsAbsoluteHttpUrl(raw_id) ==
    /\ raw_id # Null
    /\ urlsplit(Strip(raw_id.text)).scheme \in {"http", "https"}
    /\ urlsplit(Strip(raw_id.text)).netloc # ""

\* C17 as stated: with no raw id the result is "urlhash:" and the hash of the canonical
\* URL; with a raw id that is an absolute http(s) URL it is that URL canonicalized; with
\* any other raw id it is the raw id trimmed; and it is never the empty string.
C17_Original ==
    (pc = "returned" /\ args.fn = "derive_external_id")
        => /\ result # ""
           /\ IF args.raw_id = Null \/ args.raw_id = Str("")
              THEN result = "urlhash:" \o stable_hash(FallbackSeed(args.raw_link))
              ELSE IF IsAbsoluteHttpUrl(args.raw_id)
              THEN result = canonicalize_url(args.raw_id.text)
              ELSE result = Strip(args.raw_id.text)

\* the rules of the filter in the order of evaluate: 1 include keywords, 2 exclude
\* keywords, 3 include councils, 4 include funding types, 5 minimum days until deadline
Rules == 1..5

Searchable(o) == o.title \o "\n" \o o.summary

ShownOrNone(field) == IF field = Null THEN "None" ELSE field.text

RuleConfigured(r, st) ==
    CASE r = 1 -> st.include_keywords # <<>>
      [] r = 2 -> st.exclude_keywords # <<>>
      [] r = 3 -> st.include_councils # <<>>
      [] r = 4 -> st.include_funding_types # <<>>
      [] r = 5 -> st.min_days_until_deadline # Null

RulePasses(r, st, o, now) ==
    CASE r = 1 -> \E i \in 1..Len(st.include_keywords) :
                    IsHit(st.include_keywords[i], Searchable(o))
      [] r = 2 -> \A i \in 1..Len(st.exclude_keywords) :
                    ~IsHit(st.exclude_keywords[i], Searchable(o))
      [] r = 3 -> AnyIn(st.include_councils, o.funder)
      [] r = 4 -> AnyIn(st.include_funding_types, o.funding_type)
      [] r = 5 -> /\ o.closing_date # Null
                  /\ DaysUntil(o.closing_date, now) >= st.min_days_until_deadline.days

RuleFailReason(r, st, o, now) ==
    CASE r = 1 -> "no include keywords matched"
      [] r = 2 -> "excluded by keyword: "
                    \o JoinWith(_find_hits(st.exclude_keywords, Searchable(o)), ", ")
      [] r = 3 -> "funder/council filter not matched"
      [] r = 4 -> "funding_type filter not matched"
      [] r = 5 -> IF o.closing_date = Null
                  THEN "missing closing date required by deadline filter"
                  ELSE "deadline too soon ("
                        \o ToString(DaysUntil(o.closing_date, now)) \o "d < "
                        \o ToString(st.min_days_until_deadline.days) \o "d)"

\* what a passing rule adds to the reasons
RulePassReasons(r, st, o, now) ==
    CASE r = 1 -> <<"keywords: "
                      \o JoinWith(_find_hits(st.include_keywords, Searchable(o)), ", ")>>
      [] r = 2 -> <<>>
      [] r = 3 -> <<"council/funder: " \o ShownOrNone(o.funder)>>
      [] r = 4 -> <<"funding type: " \o ShownOrNone(o.funding_type)>>
      [] r = 5 -> <<"deadline in " \o ToString(DaysUntil(o.closing_date, now)) \o " days">>

RECURSIVE Accumulated(_, _, _, _)
Accumulated(r, st, o, now) ==
    IF r \notin Rules THEN <<>>
    ELSE (IF RuleConfigured(r, st) THEN RulePassReasons(r, st, o, now) ELSE <<>>)
            \o Accumulated(r + 1, st, o, now)

FailingRules(st, o, now) ==
    {r \in Rules : RuleConfigured(r, st) /\ ~RulePasses(r, st, o, now)}

FirstFailing(st, o, now) ==
    CHOOSE r \in FailingRules(st, o, now) : \A q \in FailingRules(st, o, now) : r <= q

DefaultReasons == <<"matched default pass-through rules">>

Evaluated == pc = "returned" /\ args.fn = "evaluate"

\* C18 as stated: the first failing rule alone decides a rejection; when every configured
\* rule passes the reasons are the accumulated ones, and the default reason is given
\* when no rule is configured
C18_Original ==
    Evaluated =>
        LET st == args.settings
            o == args.opp
        IN IF FailingRules(st, o, args.now) # {}
           THEN result = FilterResult(FALSE,
                            <<RuleFailReason(FirstFailing(st, o, args.now), st, o, args.now)>>)
           ELSE result = FilterResult(TRUE,
                            IF \A r \in Rules : ~RuleConfigured(r, st)
                            THEN DefaultReasons
                            ELSE Accumulated(1, st, o, args.now))

\* C18: evaluate applies the rules in the order include keywords, exclude keywords,
\* include councils, include funding types, minimum days until deadline; the first
\* failing rule yields matched = FALSE with that rule's single reason, so an exclude hit
\* rejects even when an include keyword matched; when every configured rule passes the
\* result is matched = TRUE with the accumulated reasons, or with the default
\* pass-through reason when no rule added a reason (no rule configured, or only the
\* exclude keywords, which add none)
C18_RuleOrder ==
    Evaluated =>
        LET st == args.settings
            o == args.opp
            acc == Accumulated(1, st, o, args.now)
        IN /\ IF FailingRules(st, o, args.now) # {}
              THEN result = FilterResult(FALSE,
                            <<RuleFailReason(FirstFailing(st, o, args.now), st, o, args.now)>>)
              ELSE result = FilterResult(TRUE, IF acc = <<>> THEN DefaultReasons ELSE acc)
           /\ (\A r \in Rules : ~RuleConfigured(r, st)) => result.reasons = DefaultReasons
           /\ (~RulePasses(2, st, o, args.now)
                    /\ (RuleConfigured(1, st) => RulePasses(1, st, o, args.now)))
                => /\ ~result.matched
                   /\ result.reasons = <<RuleFailReason(2, st, o, args.now)>>

\* an exclude hit rejected an opportunity an include keyword matched
C18_Witness ==
    /\ Evaluated
    /\ args.settings.include_keywords = <<"AI", "digital twin">>
    /\ args.settings.exclude_keywords = <<"PhD">>
    /\ args.opp.title = "AI PhD studentship"
    /\ result = FilterResult(FALSE, <<"excluded by keyword: PhD">>)

\* only the exclude keywords are configured, none of them hits, and the result
\* carries the default reason
C18_DefaultWithExcludeOnly ==
    /\ Evaluated
    /\ args.settings.exclude_keywords = <<"PhD">>
    /\ \A r \in Rules \ {2} : ~RuleConfigured(r, args.settings)
    /\ args.opp.title = "AI for health systems"
    /\ result = FilterResult(TRUE, DefaultReasons)

\* floor((closing_date - now) / 1 day): the whole number d of days with
\* d days <= closing_date - now < d + 1 days
FloorDays(closing_date, now) ==
    CHOOSE d \in (-MaxDays - 2)..(MaxDays + 2) :
        /\ d * SecondsPerDay <= closing_date.utc - now.utc
        /\ closing_date.utc - now.utc < (d + 1) * SecondsPerDay

\* the rules before the deadline rule let the opportunity through
DeadlineRuleReached(st, o, now) ==
    \A r \in Rules \ {5} : RuleConfigured(r, st) => RulePasses(r, st, o, now)

Normalized(s) == JoinWith(SplitWords(s), " ")

\* the keyword occurs in text as a whole word or phrase: some stretch of the text reads
\* as the keyword, letter case and the amount of whitespace between its words aside,
\* and the characters next to the stretch are not letters or digits
OccursAsWord(keyword, text) ==
    \E i \in 1..Len(text) :
        /\ At(text, i) \notin Whitespace
        /\ i = 1 \/ At(text, i - 1) \notin Alnum
        /\ \E j \in i..Len(text) :
            /\ At(text, j) \notin Whitespace
            /\ j = Len(text) \/ At(text, j + 1) \notin Alnum
            /\ Lower(Normalized(SubSeq(text, i, j))) = Lower(Normalized(keyword))

RECURSIVE WholeWordHits(_, _)
WholeWordHits(keywords, text) ==
    IF keywords = <<>> THEN <<>>
    ELSE (IF OccursAsWord(keywords[1], text) THEN <<keywords[1]>> ELSE <<>>)
            \o WholeWordHits(Tail(keywords), text)

\* C20: a keyword matches title and summary only as a whole word or phrase, whatever
\* the letter case: an occurrence counts only when the characters right before and
\* right after it are not letters or digits, so "AI" is not found in "maintenance" or
\* "sustainability" and is found in "AI for health systems"
C20_WholeWords ==
    /\ (pc = "returned" /\ args.fn = "_find_hits")
            => result = WholeWordHits(args.keywords, args.searchable)
    /\ (Evaluated /\ args.settings.include_keywords # <<>>)
            => (result = FilterResult(FALSE, <<"no include keywords matched">>)
                    <=> WholeWordHits(args.settings.include_keywords,
                                      Searchable(args.opp)) = <<>>)

\* "AI" was looked for in a text with "maintenance" and "sustainability" and not found
C20_Witness ==
    /\ pc = "returned"
    /\ args.fn = "_find_hits"
    /\ args.keywords = <<"AI", " Digital  Twin">>
    /\ args.searchable = "Research software maintenance fund\nsustainability"
    /\ Search_substring(<<"AI">>, args.searchable)
    /\ result = <<>>
    /\ _find_hits(<<"AI", " Digital  Twin">>, "AI for health systems\n") = <<"AI">>
    /\ _find_hits(<<"AI", " Digital  Twin">>, "digital \n twin") = <<" Digital  Twin">>

\* the step is the filter's rejection of the current opportunity
Rejects == pc = "filter" /\ ~evaluate(opportunity).matched /\ ev'.kind # "crash"

\* C21: for an opportunity the filter rejects, run_once does not invoke the notifier and
\* adds one to filtered_out; it writes a seen record, with the filter's rejection reason
\* as match_reason and no posted_at, exactly when record_non_matches_as_seen is true and
\* dry_run is false (a write that raises is reported and leaves the store as it was),
\* and otherwise leaves the store unchanged
C21_RejectedOpportunity ==
    [][Rejects =>
        LET e == opportunity.external_id IN
        /\ pc' = "next"
        /\ calls' = calls /\ notified' = notified /\ previews' = previews
        /\ stats'.filtered_out = stats.filtered_out + 1
        /\ stats'.matched = stats.matched /\ stats'.posted = stats.posted
        /\ \A f \in ExtIds \ {e} : store'[f] = store[f]
        /\ IF record_non_matches_as_seen /\ ~dry_run
           THEN \/ /\ store'[e] = [source_id |-> opportunity.source_id,
                                   first_seen_at |-> IF store[e] = NoRecord
                                                     THEN [iso |-> clock]
                                                     ELSE store[e].first_seen_at,
                                   posted_at |-> Null,
                                   title |-> opportunity.title,
                                   url |-> opportunity.url,
                                   match_reason |-> Str("no include keywords matched")]
                   /\ stats'.errors = stats.errors
                \/ /\ store'[e] = store[e]
                   /\ stats'.errors = Append(stats.errors,
                                             <<"failed to mark non-match as seen", e>>)
           ELSE /\ store'[e] = store[e]
                /\ stats'.errors = stats.errors]_vars

\* a rejected opportunity that had no record has been recorded as seen
C21_Witness ==
    /\ ev = [kind |-> "filtered_out", id |-> "b"]
    /\ ~dry_run
    /\ record_non_matches_as_seen
    /\ stats.filtered_out = 1
    /\ calls = <<>>
    /\ store["b"] # NoRecord
    /\ store["b"].match_reason = Str("no include keywords matched")
    /\ store["b"].posted_at = Null
    /\ store["a"] = NoRecord

\* the notifier.post calls of the current run that returned: all calls but the ones
\* reported as failed
SuccessfulPosts == Len(calls) - NumErrors("failed to post")

\* C23: in any single run the number of notifier calls that complete successfully never
\* exceeds max_posts_per_run, the runs in which the store write that records a
\* successful post fails included
C23_SuccessfulPostsWithinCap == SuccessfulPosts <= max_posts_per_run

\* C24: within a single run the notifier is invoked at most once for each external_id,
\* also when the same external_id is returned more than once, by one source or by several,
\* and the first post attempt fails
C24_OneCallPerIdInARun ==
    \A i, j \in 1..Len(calls) : calls[i] = calls[j] => i = j

\* C27: at every return of run_once, processed is the sum of skipped_already_posted,
\* skipped_pending_confirmation, filtered_out, matched and the number of opportunities
\* whose has_seen lookup failed, and posted <= matched
C27_CountersAddUp ==
    pc = "done" =>
        /\ stats.processed = stats.skipped_already_posted
                                + stats.skipped_pending_confirmation
                                + stats.filtered_out
                                + stats.matched
                                + NumErrors("failed to read dedupe state")
        /\ stats.posted <= stats.matched

\* a run returned after one lookup that failed and one match that was not posted
C27_Witness ==
    /\ pc = "done"
    /\ stats.processed = 2
    /\ NumErrors("failed to read dedupe state") = 1
    /\ stats.matched = 1
    /\ stats.posted = 0
    /\ stats.filtered_out = 0

\* C30: a record's first_seen_at is the time of the mark_seen call that created the
\* record, and no later mark_seen call changes it, whatever arguments the call passes
C30_FirstSeenAtIsKept ==
    [][IsMarkSeenCall
        => \A e \in ExtIds :
            /\ store[e] # NoRecord
                => store'[e] # NoRecord /\ store'[e].first_seen_at = store[e].first_seen_at
            /\ (store[e] = NoRecord /\ store'[e] # NoRecord)
                => store'[e].first_seen_at = [iso |-> clock]]_vars

\* a record created at time 1 and posted has been through a later call that passed no
\* posted_at, and at time 2 still holds its first_seen_at
C30_Witness ==
    /\ clock = 2
    /\ lastCall # NoCall
    /\ lastCall.posted_at = Null
    /\ store[lastCall.external_id].posted_at # Null
    /\ store[lastCall.external_id].first_seen_at = [iso |-> 1]

\* the external ids of a sequence of opportunities
Ids(opps) == [i \in 1..Len(opps) |-> opps[i].external_id]

\* a is b with some of its elements left out
RECURSIVE IsSubsequence(_, _)
IsSubsequence(a, b) ==
    IF a = <<>> THEN TRUE
    ELSE IF b = <<>> THEN FALSE
    ELSE IF Head(a) = Head(b) THEN IsSubsequence(Tail(a), Tail(b))
    ELSE IsSubsequence(a, Tail(b))

\* the run is in the iteration of the inner loop for the current opportunity
Handling == pc \in {"has_seen", "filter", "pending", "post", "mark_failed", "mark_posted"}

\* C25: in a run the sources are fetched one at a time in the configured order; a
\* source is fetched only when every opportunity fetched before has been handled; the
\* opportunities are handled in the order the fetches returned them; so the notifier
\* invocations of the run are a subsequence of the concatenated fetch results
C25_FetchOrder ==
    hist.runs >= 1 =>
        /\ hist.sources = SubSeq(Sources, 1, Len(hist.sources))
        /\ pc = "fetch" => stats.processed = Len(hist.fetched)
        /\ Running =>
            /\ opportunities = SubSeq(hist.fetched, stats.processed + 1, Len(hist.fetched))
            /\ Handling => opportunity = hist.fetched[stats.processed]
        /\ IsSubsequence(calls, Ids(hist.fetched))

\* both sources were fetched, s1 gave b and s2 gave a, and the notifier was invoked
\* for b and then for a
C25_Witness ==
    /\ hist.sources = <<"s1", "s2">>
    /\ Len(hist.fetched) = 2
    /\ hist.fetched[1].source_id = "s1"
    /\ hist.fetched[2].source_id = "s2"
    /\ calls = <<"b", "a">>

\* the record r, as the run found it, has posted_at set or holds the pending-post sentinel
Settled(r) ==
    r # NoRecord /\ (r.posted_at # Null \/ r.match_reason = Str(_PENDING_POST_MARKER))

\* C28: run_once never writes to a record that has posted_at set or holds the
\* pending-post sentinel when the run starts: during and after the run every field of
\* it is what it was before, also when the fetched opportunity carries another title
\* or url
C28_SettledRecordsUntouched ==
    hist.runs >= 1 =>
        \A e \in ExtIds : Settled(hist.store0[e]) => store[e] = hist.store0[e]

\* a run that fetched "a" with a title and url other than the stored ones has returned
\* after skipping it for its pending-post sentinel, and the record is as it was
C28_Witness ==
    /\ pc = "done"
    /\ hist.store0["a"] = StoredPending
    /\ stats.skipped_pending_confirmation = 1
    /\ Len(hist.fetched) = 1
    /\ hist.fetched[1].external_id = "a"
    /\ hist.fetched[1].title # StoredPending.title
    /\ hist.fetched[1].url # StoredPending.url
    /\ store["a"] = StoredPending

\* the record mark_seen creates for the fetched opportunity o in a backfill
BackfillRecord(o) ==
    [source_id |-> o.source_id, first_seen_at |-> [iso |-> clock], posted_at |-> Null,
     title |-> o.title, url |-> o.url, match_reason |-> Str("backfill mark_seen")]

\* C26: a backfill never invokes the notifier; it leaves every existing record as it
\* is; a record it creates is that of a fetched opportunity, with posted_at unset and
\* match_reason "backfill mark_seen"; when the store's calls return, every fetched
\* opportunity has a record afterwards; a source whose fetch fails contributes nothing,
\* and what the other sources returned is backfilled all the same
C26_Backfill ==
    [][hist'.backfills # hist.backfills
        => /\ calls' = calls /\ notified' = notified /\ previews' = previews
           /\ \A e \in ExtIds :
                /\ store[e] # NoRecord => store'[e] = store[e]
                /\ (store[e] = NoRecord /\ store'[e] # NoRecord)
                    => \E i \in 1..Len(hist'.backfill.fetched) :
                        /\ hist'.backfill.fetched[i].external_id = e
                        /\ store'[e] = BackfillRecord(hist'.backfill.fetched[i])
           /\ \A i \in 1..Len(hist'.backfill.fetched) :
                /\ hist'.backfill.fetched[i].source_id \notin hist'.backfill.failed
                /\ hist'.backfill.written = 1..Len(hist'.backfill.fetched)
                    => store'[hist'.backfill.fetched[i].external_id] # NoRecord]_vars

\* the fetch of s1 failed, s2 returned "a", which had no record and now has the
\* backfill's, and the record a run had left for "b" is there
C26_Witness ==
    /\ hist.backfill # NoBackfill
    /\ hist.backfill.failed = {"s1"}
    /\ Len(hist.backfill.fetched) = 1
    /\ hist.backfilled = {"a"}
    /\ store["a"].source_id = "s2"
    /\ store["a"].match_reason = Str("backfill mark_seen")
    /\ store["a"].posted_at = Null
    /\ store["b"] # NoRecord
    /\ store["b"].posted_at # Null

\* C29: an opportunity that a backfill has marked as seen is not posted by a later
\* run: no run invokes the notifier for an external id whose record a backfill created
C29_BackfilledNeverPosted ==
    \A i \in 1..Len(calls) : calls[i] \notin hist.backfilled

\* the step is a failure: the process dies, or a fetch, a store call or the notifier
\* raises, or the run lacks its notifier (each adds an error to the run's stats)
FailureStep == ev'.kind = "crash" \/ Len(stats'.errors) > Len(stats.errors)

\* from some point on nothing fails
FailuresStop == <>[][~FailureStep]_vars

\* a posting run has fetched e, e matches the filter, and the run has reached it
Reached(e) ==
    /\ pc = "has_seen"
    /\ opportunity.external_id = e
    /\ evaluate(opportunity).matched
    /\ ~dry_run
    /\ notifier = "slack"

\* C22 as stated: when failures stop and an opportunity keeps being fetched, matching
\* and reached before the cap by posting runs, it is eventually posted, whatever
\* happened in earlier runs
C22_Original ==
    \A e \in ExtIds : (FailuresStop /\ []<>Reached(e)) => <>Posted(e)

\* C22: when failures stop and an opportunity keeps being fetched, matching and reached
\* before the cap by posting runs, it is eventually posted, unless an earlier failure
\* or crash left its record with the pending-post sentinel, which then stays for ever
C22_EventuallyPostedUnlessPending ==
    \A e \in ExtIds : (FailuresStop /\ []<>Reached(e)) => (<>Posted(e) \/ <>[]Pending(e))

\* "a" has been posted by a run without errors, after a run in which the post of "b"
\* raised and the marker could not be written
C22_Witness ==
    /\ ev = [kind |-> "posted", id |-> "a"]
    /\ stats.errors = <<>>
    /\ Posted("a")
    /\ lastPost["b"] = "raised"
    /\ Pending("b")

====
